---------------------------- MODULE Spec2Model ----------------------------
(***************************************************************************)
(* Concurrency examples of the avito-edu course repository, as state       *)
(* machines over a small model of the Go runtime: goroutines with a        *)
(* program counter each, sync.WaitGroup, sync.Mutex, buffered channels,    *)
(* context cancellation and timers.                                        *)
(*                                                                         *)
(* Every example function is run from the state its caller builds; the     *)
(* variable prog names the function under examination.  Goroutine 0 is the *)
(* calling goroutine, goroutines 1..n are the ones the function starts, in *)
(* the order of its go statements.                                         *)
(***************************************************************************)
EXTENDS Integers, Sequences, FiniteSets, TLC

VARIABLES
    prog,      \* the function under examination
    pc,        \* pc[g]: where goroutine g stands
    idx,       \* the caller's loop counter: iterations of the for loop done
    slice,     \* the input slice
    workerFn,  \* the worker function handed to parallelProcessing
    capacity,  \* capacity of the channel (cap(ch))
    dur,       \* the durations the function is run with, in ticks
    result,    \* parallelProcessing: the result slice
    reg,       \* reg[g]: the value goroutine g holds in a local
    wg,        \* the sync.WaitGroup counter
    buf,       \* the channel's buffer, oldest value first
    closed,    \* the channel has been closed
    results,   \* TestProcessBatch: the values received so far
    ret,       \* what the function returned (NoValue before it returns)
    crashed,   \* the process died of an unrecovered panic
    calls,     \* history: calls[i] = invocations of worker on element i
    writers,   \* history: writers[i] = goroutines that stored into slot i, in order
    order,     \* history: the goroutines in the order they did their work
    mu,        \* the sync.Mutex is locked
    counter,   \* the shared counter
    ctx,       \* the context: [done, err, deadline]
    now,       \* the clock, in ticks of 500 ms
    timer,     \* timer[g]: when goroutine g's Sleep or time.After fires (NoTimer: none)
    heap,      \* the objects the function works on: a record of their fields
    out        \* the lines printed so far

\* What the caller hands over: never changed by the function.
inputVars == <<prog, slice, workerFn, capacity, dur>>

\* The data of the fan-out functions.
parVars == <<result, results, calls, writers, order>>

chanVars == <<buf, closed>>

lockVars == <<mu, counter>>

timeVars == <<ctx, now, timer>>

vars == <<inputVars, pc, idx, reg, wg, chanVars, parVars, lockVars, timeVars,
          heap, ret, crashed, out>>

\* ret is the tuple of what the function returned, or the one-element tuple
\* of a test's verdict; a function that has not returned has returned nothing.
NoValue == <<>>

NoTimer == -1

\* A function that measures no time.
NoDurations == <<>>

\* No context made, or context.Background(): never done, no deadline.
NoContext == [done |-> FALSE, err |-> "nil", deadline |-> NoTimer]

\* The parts of the state a function does not use stay as they are made.
NoFanOut ==
    /\ result = <<>> /\ results = <<>> /\ calls = <<>> /\ writers = <<>>
    /\ order = <<>>

NoChannel == buf = <<>> /\ closed = FALSE

\* A function that works on no object of a declared type.
NoObjects == heap = <<>>

NoLock == mu = FALSE /\ counter = 0

NoClock ==
    /\ ctx = NoContext /\ now = 0
    /\ timer = [g \in DOMAIN pc |-> NoTimer]

-----------------------------------------------------------------------------
(* Bounds of the inputs. *)

MaxLen == 3

Values == {0, 1, 2}

\* All slices of at most n values.
Slices(n) == UNION {[1..k -> Values] : k \in 0..n}

-----------------------------------------------------------------------------
(* Worker functions: func(int) int.  "square" is the one main passes       *)
(* (x * x), "double" the transform main gives mapSlice (x * 2),            *)
(* "quotient" (12 / x) one that panics on an element: integer division by  *)
(* zero is a run-time panic in Go, and "spin" (for x == 0 {}; return x)    *)
(* one that never finishes on an element.                                  *)

Workers == {"square", "double", "quotient", "spin"}

Panics(fn, x) == fn = "quotient" /\ x = 0

\* The call worker(x) never returns.
Hangs(fn, x) == fn = "spin" /\ x = 0

Apply(fn, x) ==
    CASE fn = "square" -> x * x
      [] fn = "double" -> x * 2
      [] fn = "quotient" -> IF x = 0 THEN 0 ELSE 12 \div x
      [] fn = "spin" -> x

-----------------------------------------------------------------------------
(* sync.WaitGroup, as the examples use it. *)

WgAdd(n) == wg' = wg + n

WgDone == wg' = wg - 1

\* wg.Wait() returns once the counter is zero.
WgWaitReturnsAtOnce == TRUE

WgWaitReturns == wg = 0

-----------------------------------------------------------------------------
(* parallelProcessing(slice, worker), 05-how-to-use/main.go.               *)

Goroutines == 1..Len(slice)

\* go func(i, v int) {...}(i, v): the index and the value are passed by
\* value, so goroutine g, started in iteration g (1-based), owns slot g.
SlotOfShared(g) == idx

SlotOf(g) == g

ValueOf(g) == slice[g]

InitParallelProcessing ==
    /\ prog = "parallelProcessing"
    /\ slice \in Slices(MaxLen)
    /\ workerFn \in Workers
    /\ capacity = 0
    /\ dur = NoDurations
    /\ result = [i \in 1..Len(slice) |-> 0]
    /\ reg = [g \in 0..Len(slice) |-> 0]
    /\ pc = [g \in 0..Len(slice) |-> IF g = 0 THEN "loop" ELSE "unborn"]
    /\ idx = 0
    /\ wg = 0
    /\ results = <<>>
    /\ calls = [i \in 1..Len(slice) |-> 0]
    /\ writers = [i \in 1..Len(slice) |-> <<>>]
    /\ order = <<>>
    /\ ret = NoValue
    /\ crashed = FALSE
    /\ out = <<>>
    /\ NoChannel /\ NoLock /\ NoClock /\ NoObjects

\* for i, v := range slice { wg.Add(1); go func(i, v int) {...}(i, v) }
PPSpawn ==
    /\ prog = "parallelProcessing" /\ ~crashed
    /\ pc[0] = "loop" /\ idx < Len(slice)
    /\ idx' = idx + 1
    /\ WgAdd(1)
    /\ pc' = [pc EXCEPT ![idx + 1] = "call"]
    /\ UNCHANGED <<inputVars, heap, parVars, chanVars, lockVars, timeVars, reg,
                   ret, crashed, out>>

\* worker(v): the call returns a value, or panics, or never returns.
PPCall(g) ==
    /\ prog = "parallelProcessing" /\ ~crashed
    /\ pc[g] = "call"
    /\ calls' = [calls EXCEPT ![g] = @ + 1]
    /\ IF Panics(workerFn, ValueOf(g))
         THEN /\ pc' = [pc EXCEPT ![g] = "panicking"]
              /\ reg' = reg
         ELSE IF Hangs(workerFn, ValueOf(g))
         THEN /\ pc' = [pc EXCEPT ![g] = "running"]
              /\ reg' = reg
         ELSE /\ pc' = [pc EXCEPT ![g] = "store"]
              /\ reg' = [reg EXCEPT ![g] = Apply(workerFn, ValueOf(g))]
    /\ UNCHANGED <<inputVars, heap, chanVars, lockVars, timeVars, idx, wg,
                   result, results, writers, order, ret, crashed, out>>

\* result[i] = <the value worker returned>
PPStore(g) ==
    /\ prog = "parallelProcessing" /\ ~crashed
    /\ pc[g] = "store"
    /\ SlotOf(g) \in DOMAIN result
    /\ result' = [result EXCEPT ![SlotOf(g)] = reg[g]]
    /\ writers' = [writers EXCEPT ![SlotOf(g)] = Append(@, g)]
    /\ order' = Append(order, g)
    /\ pc' = [pc EXCEPT ![g] = "deferred"]
    /\ UNCHANGED <<inputVars, heap, chanVars, lockVars, timeVars, idx, reg, wg,
                   results, calls, ret, crashed, out>>

\* defer wg.Done(), on the normal return of the goroutine's function.
PPDone(g) ==
    /\ prog = "parallelProcessing" /\ ~crashed
    /\ pc[g] = "deferred"
    /\ WgDone
    /\ pc' = [pc EXCEPT ![g] = "exited"]
    /\ UNCHANGED <<inputVars, heap, parVars, chanVars, lockVars, timeVars, idx,
                   reg, ret, crashed, out>>

\* defer wg.Done(), run while the goroutine unwinds from the panic: no
\* deferred function calls recover, so the panic stays pending.
PPPanicDone(g) ==
    /\ prog = "parallelProcessing" /\ ~crashed
    /\ pc[g] = "panicking"
    /\ WgDone
    /\ pc' = [pc EXCEPT ![g] = "fatal"]
    /\ UNCHANGED <<inputVars, heap, parVars, chanVars, lockVars, timeVars, idx,
                   reg, ret, crashed, out>>

\* The panic reaches the top of the goroutine's stack: the runtime prints it
\* and ends the whole process, the caller and the sibling goroutines included.
PPCrash(g) ==
    /\ prog = "parallelProcessing" /\ ~crashed
    /\ pc[g] = "fatal"
    /\ crashed' = TRUE
    /\ UNCHANGED <<inputVars, heap, parVars, chanVars, lockVars, timeVars, pc,
                   idx, reg, wg, ret, out>>

\* wg.Wait(); return result
PPWaitReturn ==
    /\ prog = "parallelProcessing" /\ ~crashed
    /\ pc[0] = "loop" /\ idx = Len(slice)
    /\ WgWaitReturns
    /\ ret' = result
    /\ pc' = [pc EXCEPT ![0] = "returned"]
    /\ UNCHANGED <<inputVars, heap, parVars, chanVars, lockVars, timeVars, idx,
                   reg, wg, crashed, out>>

NextParallelProcessing ==
    \/ PPSpawn
    \/ \E g \in Goroutines : PPCall(g)
    \/ \E g \in Goroutines : PPStore(g)
    \/ \E g \in Goroutines : PPDone(g)
    \/ \E g \in Goroutines : PPPanicDone(g)
    \/ \E g \in Goroutines : PPCrash(g)
    \/ PPWaitReturn

-----------------------------------------------------------------------------
(* ProcessBatch(data, resultChan) and TestProcessBatch,                    *)
(* 11-testing/concurency.md.  The caller makes the channel (the test with  *)
(* capacity len(data)), calls ProcessBatch and, once it has returned,      *)
(* drains the channel with a range loop and compares.                      *)

\* resultChan <- n * 2: the value goroutine g sends.
SentValue(g) == slice[g] * 2

\* expected := []int{2, 4, 6, 8, 10} for data = {1, 2, 3, 4, 5}: the doubled
\* inputs in the order of data.
Expected == [i \in 1..Len(slice) |-> slice[i] * 2]

\* A send on a channel nobody receives from completes iff the buffer has room.
CanSendOffByOne == ~closed /\ Len(buf) <= capacity

CanSend == ~closed /\ Len(buf) < capacity

InitProcessBatch ==
    /\ prog = "ProcessBatch"
    /\ slice \in Slices(MaxLen)
    /\ workerFn = "double"
    /\ capacity \in 0..(Len(slice) + 1)
    /\ dur = NoDurations
    /\ reg = [g \in 0..Len(slice) |-> 0]
    /\ pc = [g \in 0..Len(slice) |-> IF g = 0 THEN "loop" ELSE "unborn"]
    /\ idx = 0
    /\ wg = 0
    /\ ret = NoValue
    /\ crashed = FALSE
    /\ out = <<>>
    /\ NoFanOut /\ NoChannel /\ NoLock /\ NoClock /\ NoObjects

\* for _, num := range data { wg.Add(1); go func(n int) {...}(num) }
PBSpawn ==
    /\ prog = "ProcessBatch"
    /\ pc[0] = "loop" /\ idx < Len(slice)
    /\ idx' = idx + 1
    /\ WgAdd(1)
    /\ pc' = [pc EXCEPT ![idx + 1] = "send"]
    /\ UNCHANGED <<inputVars, heap, parVars, chanVars, lockVars, timeVars, reg,
                   ret, crashed, out>>

\* resultChan <- n * 2
PBSend(g) ==
    /\ prog = "ProcessBatch"
    /\ pc[g] = "send"
    /\ CanSend
    /\ buf' = Append(buf, SentValue(g))
    /\ pc' = [pc EXCEPT ![g] = "deferred"]
    /\ UNCHANGED <<inputVars, heap, parVars, lockVars, timeVars, idx, reg, wg,
                   closed, ret, crashed, out>>

\* defer wg.Done()
PBDone(g) ==
    /\ prog = "ProcessBatch"
    /\ pc[g] = "deferred"
    /\ WgDone
    /\ pc' = [pc EXCEPT ![g] = "exited"]
    /\ UNCHANGED <<inputVars, heap, parVars, chanVars, lockVars, timeVars, idx,
                   reg, ret, crashed, out>>

\* The channel is closed without waiting for the goroutines: the mutation
\* of PBWaitClose.
PBCloseWithoutWait ==
    /\ prog = "ProcessBatch"
    /\ pc[0] = "loop" /\ idx = Len(slice)
    /\ closed' = TRUE
    /\ pc' = [pc EXCEPT ![0] = "range"]
    /\ UNCHANGED <<inputVars, heap, parVars, lockVars, timeVars, idx, reg, wg,
                   buf, ret, crashed, out>>

\* wg.Wait(); close(resultChan); ProcessBatch returns to the test.
PBWaitClose ==
    /\ prog = "ProcessBatch"
    /\ pc[0] = "loop" /\ idx = Len(slice)
    /\ WgWaitReturns
    /\ closed' = TRUE
    /\ pc' = [pc EXCEPT ![0] = "range"]
    /\ UNCHANGED <<inputVars, heap, parVars, lockVars, timeVars, idx, reg, wg,
                   buf, ret, crashed, out>>

\* A receive on a closed channel that holds no value blocks for ever: the
\* mutation of RecvClosedReady.
RecvClosedBlocks == FALSE

\* A receive on a closed channel that holds no value is ready at once ...
RecvClosedReady == buf = <<>> /\ closed

\* ... and yields the zero value with ok = false, which ends a range loop.
RecvClosed == [value |-> 0, ok |-> FALSE]

\* for res := range resultChan { results = append(results, res) }
TPBReceive ==
    /\ prog = "ProcessBatch"
    /\ pc[0] = "range"
    /\ buf # <<>>
    /\ results' = Append(results, Head(buf))
    /\ buf' = Tail(buf)
    /\ UNCHANGED <<inputVars, heap, lockVars, timeVars, pc, idx, reg, wg,
                   closed, result, calls, writers, order, ret, crashed, out>>

\* The range loop ends on the closed, drained channel; then
\* if !reflect.DeepEqual(results, expected) { t.Errorf(...) }
TPBCompare ==
    /\ prog = "ProcessBatch"
    /\ pc[0] = "range"
    /\ RecvClosedReady /\ ~RecvClosed.ok
    /\ ret' = IF results = Expected THEN <<"PASS">> ELSE <<"FAIL">>
    /\ pc' = [pc EXCEPT ![0] = "returned"]
    /\ UNCHANGED <<inputVars, heap, parVars, chanVars, lockVars, timeVars, idx,
                   reg, wg, crashed, out>>

NextProcessBatch ==
    \/ PBSpawn
    \/ \E g \in Goroutines : PBSend(g)
    \/ \E g \in Goroutines : PBDone(g)
    \/ PBWaitClose
    \/ TPBReceive
    \/ TPBCompare

-----------------------------------------------------------------------------
(* Fan-out over an input slice: parallelProcessing and ProcessBatch. *)

InitPar == InitParallelProcessing \/ InitProcessBatch

NextPar == NextParallelProcessing \/ NextProcessBatch

SpecPar == InitPar /\ [][NextPar]_vars

\* The scheduler runs every goroutine that can take a step.
SpecParFair == SpecPar /\ WF_vars(NextPar)

\* C1: when parallelProcessing returns, every goroutine it started has run
\* to the end of its function (its deferred wg.Done included), and it
\* returns exactly N results, result[i] = worker(slice[i]) for every i on
\* which the worker returns a value, whatever the order in which the
\* goroutines ran.
C1_ResultsInSubmissionOrder ==
    (prog = "parallelProcessing" /\ pc[0] = "returned") =>
        /\ \A g \in Goroutines : pc[g] \in {"exited", "fatal"}
        /\ Len(ret) = Len(slice)
        /\ \A i \in 1..Len(slice) :
              ~Panics(workerFn, slice[i]) => ret[i] = Apply(workerFn, slice[i])

\* parallelProcessing has returned the results of three elements whose
\* goroutines stored in an order other than the submission order.
C1_Witness ==
    /\ prog = "parallelProcessing" /\ pc[0] = "returned"
    /\ Len(slice) = 3
    /\ order = <<3, 1, 2>>
    /\ ret = <<Apply(workerFn, slice[1]), Apply(workerFn, slice[2]),
               Apply(workerFn, slice[3])>>
    /\ ret[1] # ret[2] /\ ret[2] # ret[3]

\* C2: after ProcessBatch returned (capacity len(data)), draining the
\* channel yields the doubled inputs in the order of data, so the comparison
\* of TestProcessBatch passes, in every interleaving of the senders.
C2_DrainedInDataOrder ==
    (prog = "ProcessBatch" /\ capacity = Len(slice) /\ pc[0] = "returned") =>
        /\ results = Expected
        /\ ret = <<"PASS">>

\* C3: every element is handled by exactly one goroutine: the worker is
\* invoked at most once per element and a slot is stored into at most once,
\* by the goroutine of that index; when parallelProcessing returns the worker
\* has been invoked exactly once per element and every slot whose call
\* returned has been stored exactly once.
C3_EachTaskExactlyOnce ==
    prog = "parallelProcessing" =>
        /\ \A i \in 1..Len(slice) :
              /\ calls[i] <= 1
              /\ Len(writers[i]) <= 1
              /\ \A k \in 1..Len(writers[i]) : writers[i][k] = i
        /\ pc[0] = "returned" =>
              \A i \in 1..Len(slice) :
                  /\ calls[i] = 1
                  /\ ~Panics(workerFn, slice[i]) => writers[i] = <<i>>

\* Three goroutines have each run their task and parallelProcessing returned.
C3_Witness ==
    /\ prog = "parallelProcessing" /\ pc[0] = "returned"
    /\ Len(slice) = 3
    /\ \A i \in 1..3 : calls[i] = 1 /\ writers[i] = <<i>>

\* C7: a panic raised inside a task stops at that task's boundary: it ends
\* neither the process nor, with it, the caller and the sibling tasks.
C7_PanicStopsAtTask ==
    /\ ~crashed
    /\ \A g \in DOMAIN pc : pc[g] # "fatal"

\* C12: the runner does not block for ever: every run of parallelProcessing
\* comes to its return (or to the end of the process), also when the worker
\* never finishes on some element.
C12_RunnerReturns ==
    (prog = "parallelProcessing") ~> (pc[0] = "returned" \/ crashed)

-----------------------------------------------------------------------------
(* Counters and slots shared by goroutines: 07-errors/main.go and           *)
(* 08-sync/main.go, and IncrementSafe of 11-testing/concurency.md.          *)
(* counter++ is a read of the variable followed by a write of the value    *)
(* read plus one, two steps another goroutine can come between.            *)

\* The loops start 10 goroutines (1000 in TestIncrementSafe); the model
\* starts NumGoroutines of them.
NumGoroutines == 3

\* exampleSyncBestPractices starts 10 goroutines over 5 slots; the model
\* starts NumTasks of them, more than there are slots.
NumTasks == 6

\* ch := make(chan int, 1), exampleDataRace of 07-errors.
RaceChanCap == 1

\* ch := make(chan int, 5), exampleSyncBestPractices.
SlotChanCap == 5

\* A receive completes iff the buffer holds a value (or the channel is closed).
CanRecv == buf # <<>> \/ closed

\* mu.Lock() blocks while the mutex is locked.
CanLockAlways == TRUE

CanLock == ~mu

InitLoop(name, n, cap) ==
    /\ prog = name
    /\ slice = <<>>
    /\ workerFn = "none"
    /\ capacity = cap
    /\ dur = NoDurations
    /\ pc = [g \in 0..n |-> IF g = 0 THEN "loop" ELSE "unborn"]
    /\ reg = [g \in 0..n |-> 0]
    /\ idx = 0
    /\ wg = 0
    /\ ret = NoValue
    /\ crashed = FALSE
    /\ out = <<>>
    /\ NoFanOut /\ NoChannel /\ NoLock /\ NoClock /\ NoObjects

\* ---- exampleDataRace, 07-errors/main.go: a channel of capacity 1 as lock.

InitErrorsDataRace == InitLoop("errors.exampleDataRace", NumGoroutines, RaceChanCap)

\* for i := 0; i < 10; i++ { wg.Add(1); go func() {...}() }
EDRSpawn ==
    /\ prog = "errors.exampleDataRace"
    /\ pc[0] = "loop" /\ idx < NumGoroutines
    /\ idx' = idx + 1
    /\ WgAdd(1)
    /\ pc' = [pc EXCEPT ![idx + 1] = "acquire"]
    /\ UNCHANGED <<inputVars, heap, parVars, chanVars, lockVars, timeVars, reg,
                   ret, crashed, out>>

\* ch <- 1
EDRAcquireSkipped(g) ==
    /\ prog = "errors.exampleDataRace"
    /\ pc[g] = "acquire"
    /\ pc' = [pc EXCEPT ![g] = "read"]
    /\ UNCHANGED <<inputVars, heap, parVars, chanVars, lockVars, timeVars, idx,
                   reg, wg, ret, crashed, out>>

EDRAcquire(g) ==
    /\ prog = "errors.exampleDataRace"
    /\ pc[g] = "acquire"
    /\ CanSend
    /\ buf' = Append(buf, 1)
    /\ pc' = [pc EXCEPT ![g] = "read"]
    /\ UNCHANGED <<inputVars, heap, parVars, lockVars, timeVars, idx, reg, wg,
                   closed, ret, crashed, out>>

\* counter++, the read
EDRRead(g) ==
    /\ prog = "errors.exampleDataRace"
    /\ pc[g] = "read"
    /\ reg' = [reg EXCEPT ![g] = counter]
    /\ pc' = [pc EXCEPT ![g] = "write"]
    /\ UNCHANGED <<inputVars, heap, parVars, chanVars, lockVars, timeVars, idx,
                   wg, ret, crashed, out>>

\* counter++, the write
EDRWrite(g) ==
    /\ prog = "errors.exampleDataRace"
    /\ pc[g] = "write"
    /\ counter' = reg[g] + 1
    /\ pc' = [pc EXCEPT ![g] = "release"]
    /\ UNCHANGED <<inputVars, heap, parVars, chanVars, timeVars, idx, reg, wg,
                   mu, ret, crashed, out>>

\* <-ch
EDRRelease(g) ==
    /\ prog = "errors.exampleDataRace"
    /\ pc[g] = "release"
    /\ CanRecv
    /\ buf' = Tail(buf)
    /\ pc' = [pc EXCEPT ![g] = "deferred"]
    /\ UNCHANGED <<inputVars, heap, parVars, lockVars, timeVars, idx, reg, wg,
                   closed, ret, crashed, out>>

\* defer wg.Done()
EDRDone(g) ==
    /\ prog = "errors.exampleDataRace"
    /\ pc[g] = "deferred"
    /\ WgDone
    /\ pc' = [pc EXCEPT ![g] = "exited"]
    /\ UNCHANGED <<inputVars, heap, parVars, chanVars, lockVars, timeVars, idx,
                   reg, ret, crashed, out>>

\* wg.Wait(); fmt.Println("Counter:", counter)
EDRWaitPrint ==
    /\ prog = "errors.exampleDataRace"
    /\ pc[0] = "loop" /\ idx = NumGoroutines
    /\ WgWaitReturns
    /\ out' = Append(out, <<"Counter:", counter>>)
    /\ pc' = [pc EXCEPT ![0] = "returned"]
    /\ UNCHANGED <<inputVars, heap, parVars, chanVars, lockVars, timeVars, idx,
                   reg, wg, ret, crashed>>

NextErrorsDataRace ==
    \/ EDRSpawn
    \/ \E g \in 1..NumGoroutines : EDRAcquire(g)
    \/ \E g \in 1..NumGoroutines : EDRRead(g)
    \/ \E g \in 1..NumGoroutines : EDRWrite(g)
    \/ \E g \in 1..NumGoroutines : EDRRelease(g)
    \/ \E g \in 1..NumGoroutines : EDRDone(g)
    \/ EDRWaitPrint

\* ---- exampleSyncBestPractices, 07-errors/main.go: a channel of capacity 5
\* as a pool of slots.

InitSyncBestPractices == InitLoop("exampleSyncBestPractices", NumTasks, SlotChanCap)

\* for i := 0; i < 10; i++ { wg.Add(1); go func(i int) {...}(i) }
SBPSpawn ==
    /\ prog = "exampleSyncBestPractices"
    /\ pc[0] = "loop" /\ idx < NumTasks
    /\ idx' = idx + 1
    /\ WgAdd(1)
    /\ pc' = [pc EXCEPT ![idx + 1] = "acquire"]
    /\ UNCHANGED <<inputVars, heap, parVars, chanVars, lockVars, timeVars, reg,
                   ret, crashed, out>>

\* ch <- i (goroutine g was started with i = g - 1)
SBPAcquire(g) ==
    /\ prog = "exampleSyncBestPractices"
    /\ pc[g] = "acquire"
    /\ CanSend
    /\ buf' = Append(buf, g - 1)
    /\ pc' = [pc EXCEPT ![g] = "work"]
    /\ UNCHANGED <<inputVars, heap, parVars, lockVars, timeVars, idx, reg, wg,
                   closed, ret, crashed, out>>

\* The goroutine ends without its deferred receive: the mutation of
\* SBPRelease.
SBPReleaseForgotten(g) ==
    /\ prog = "exampleSyncBestPractices"
    /\ pc[g] = "work"
    /\ pc' = [pc EXCEPT ![g] = "deferred"]
    /\ UNCHANGED <<inputVars, heap, parVars, chanVars, lockVars, timeVars, idx,
                   reg, wg, ret, crashed, out>>

\* fmt.Println("Processing task", i); time.Sleep(time.Second); then the
\* deferred func() { <-ch }()
SBPRelease(g) ==
    /\ prog = "exampleSyncBestPractices"
    /\ pc[g] = "work"
    /\ CanRecv
    /\ buf' = Tail(buf)
    /\ pc' = [pc EXCEPT ![g] = "deferred"]
    /\ UNCHANGED <<inputVars, heap, parVars, lockVars, timeVars, idx, reg, wg,
                   closed, ret, crashed, out>>

\* defer wg.Done(): registered first, so run last
SBPDone(g) ==
    /\ prog = "exampleSyncBestPractices"
    /\ pc[g] = "deferred"
    /\ WgDone
    /\ pc' = [pc EXCEPT ![g] = "exited"]
    /\ UNCHANGED <<inputVars, heap, parVars, chanVars, lockVars, timeVars, idx,
                   reg, ret, crashed, out>>

\* wg.Wait(); fmt.Println("All tasks processed")
SBPWaitPrint ==
    /\ prog = "exampleSyncBestPractices"
    /\ pc[0] = "loop" /\ idx = NumTasks
    /\ WgWaitReturns
    /\ out' = Append(out, <<"All tasks processed">>)
    /\ pc' = [pc EXCEPT ![0] = "returned"]
    /\ UNCHANGED <<inputVars, heap, parVars, chanVars, lockVars, timeVars, idx,
                   reg, wg, ret, crashed>>

NextSyncBestPractices ==
    \/ SBPSpawn
    \/ \E g \in 1..NumTasks : SBPAcquire(g)
    \/ \E g \in 1..NumTasks : SBPRelease(g)
    \/ \E g \in 1..NumTasks : SBPDone(g)
    \/ SBPWaitPrint

-----------------------------------------------------------------------------
(* The goroutine that increments under the mutex: exampleMutex and the     *)
(* second loop of exampleDataRace in 08-sync/main.go, IncrementSafe in     *)
(* 11-testing/concurency.md.  All three lock, increment, unlock and then   *)
(* run the deferred wg.Done().                                             *)

MutexProgs == {"exampleMutex", "sync.exampleDataRace", "TestIncrementSafe"}

\* mu.Lock()
MuLock(g) ==
    /\ prog \in MutexProgs
    /\ pc[g] = "lock"
    /\ CanLock
    /\ mu' = TRUE
    /\ pc' = [pc EXCEPT ![g] = "read"]
    /\ UNCHANGED <<inputVars, heap, parVars, chanVars, timeVars, idx, reg, wg,
                   counter, ret, crashed, out>>

\* counter++ under the mutex, the read
MuRead(g) ==
    /\ prog \in MutexProgs
    /\ pc[g] = "read"
    /\ reg' = [reg EXCEPT ![g] = counter]
    /\ pc' = [pc EXCEPT ![g] = "write"]
    /\ UNCHANGED <<inputVars, heap, parVars, chanVars, lockVars, timeVars, idx,
                   wg, ret, crashed, out>>

\* counter++ under the mutex, the write
MuWrite(g) ==
    /\ prog \in MutexProgs
    /\ pc[g] = "write"
    /\ counter' = reg[g] + 1
    /\ pc' = [pc EXCEPT ![g] = "unlock"]
    /\ UNCHANGED <<inputVars, heap, parVars, chanVars, timeVars, idx, reg, wg,
                   mu, ret, crashed, out>>

\* mu.Unlock() (deferred in IncrementSafe)
MuUnlock(g) ==
    /\ prog \in MutexProgs
    /\ pc[g] = "unlock"
    /\ mu' = FALSE
    /\ pc' = [pc EXCEPT ![g] = "deferred"]
    /\ UNCHANGED <<inputVars, heap, parVars, chanVars, timeVars, idx, reg, wg,
                   counter, ret, crashed, out>>

\* defer wg.Done()
MuDone(g) ==
    /\ prog \in MutexProgs
    /\ pc[g] = "deferred"
    /\ WgDone
    /\ pc' = [pc EXCEPT ![g] = "exited"]
    /\ UNCHANGED <<inputVars, heap, parVars, chanVars, lockVars, timeVars, idx,
                   reg, ret, crashed, out>>

NextMutexGoroutine ==
    \/ \E g \in DOMAIN pc \ {0} : MuLock(g)
    \/ \E g \in DOMAIN pc \ {0} : MuRead(g)
    \/ \E g \in DOMAIN pc \ {0} : MuWrite(g)
    \/ \E g \in DOMAIN pc \ {0} : MuUnlock(g)
    \/ \E g \in DOMAIN pc \ {0} : MuDone(g)

\* ---- exampleMutex, 08-sync/main.go

InitExampleMutex == InitLoop("exampleMutex", NumGoroutines, 0)

\* for i := 0; i < 10; i++ { wg.Add(1); go func() {...}() }
EMSpawn ==
    /\ prog = "exampleMutex"
    /\ pc[0] = "loop" /\ idx < NumGoroutines
    /\ idx' = idx + 1
    /\ WgAdd(1)
    /\ pc' = [pc EXCEPT ![idx + 1] = "lock"]
    /\ UNCHANGED <<inputVars, heap, parVars, chanVars, lockVars, timeVars, reg,
                   ret, crashed, out>>

\* wg.Wait(); fmt.Println("Counter:", counter)
EMWaitPrint ==
    /\ prog = "exampleMutex"
    /\ pc[0] = "loop" /\ idx = NumGoroutines
    /\ WgWaitReturns
    /\ out' = Append(out, <<"Counter:", counter>>)
    /\ pc' = [pc EXCEPT ![0] = "returned"]
    /\ UNCHANGED <<inputVars, heap, parVars, chanVars, lockVars, timeVars, idx,
                   reg, wg, ret, crashed>>

\* ---- TestIncrementSafe, 11-testing/concurency.md

InitTestIncrementSafe == InitLoop("TestIncrementSafe", NumGoroutines, 0)

\* for i := 0; i < 1000; i++ { wg.Add(1); go func() {...}() }
TISSpawn ==
    /\ prog = "TestIncrementSafe"
    /\ pc[0] = "loop" /\ idx < NumGoroutines
    /\ idx' = idx + 1
    /\ WgAdd(1)
    /\ pc' = [pc EXCEPT ![idx + 1] = "lock"]
    /\ UNCHANGED <<inputVars, heap, parVars, chanVars, lockVars, timeVars, reg,
                   ret, crashed, out>>

\* wg.Wait(); if counter != 1000 { t.Errorf(...) }: the test compares the
\* counter with the number of goroutines it started.
TISWaitCompare ==
    /\ prog = "TestIncrementSafe"
    /\ pc[0] = "loop" /\ idx = NumGoroutines
    /\ WgWaitReturns
    /\ ret' = IF counter # NumGoroutines THEN <<"FAIL">> ELSE <<"PASS">>
    /\ pc' = [pc EXCEPT ![0] = "returned"]
    /\ UNCHANGED <<inputVars, heap, parVars, chanVars, lockVars, timeVars, idx,
                   reg, wg, crashed, out>>

\* ---- exampleDataRace, 08-sync/main.go: NumGoroutines goroutines increment
\* without synchronisation (goroutines 1..NumGoroutines), then, the counter
\* reset, NumGoroutines more under the mutex.

InitSyncDataRace == InitLoop("sync.exampleDataRace", 2 * NumGoroutines, 0)

\* first loop: for i := 0; i < 10; i++ { wg.Add(1); go func() {...}() }
SDRSpawnRacy ==
    /\ prog = "sync.exampleDataRace"
    /\ pc[0] = "loop" /\ idx < NumGoroutines
    /\ idx' = idx + 1
    /\ WgAdd(1)
    /\ pc' = [pc EXCEPT ![idx + 1] = "racyRead"]
    /\ UNCHANGED <<inputVars, heap, parVars, chanVars, lockVars, timeVars, reg,
                   ret, crashed, out>>

\* counter++ with no lock held, the read
SDRRacyRead(g) ==
    /\ prog = "sync.exampleDataRace"
    /\ pc[g] = "racyRead"
    /\ reg' = [reg EXCEPT ![g] = counter]
    /\ pc' = [pc EXCEPT ![g] = "racyWrite"]
    /\ UNCHANGED <<inputVars, heap, parVars, chanVars, lockVars, timeVars, idx,
                   wg, ret, crashed, out>>

\* The write stores the value read, not its successor: the mutation of
\* SDRRacyWrite.
SDRRacyWriteSame(g) ==
    /\ prog = "sync.exampleDataRace"
    /\ pc[g] = "racyWrite"
    /\ counter' = reg[g]
    /\ pc' = [pc EXCEPT ![g] = "racyDeferred"]
    /\ UNCHANGED <<inputVars, heap, parVars, chanVars, timeVars, idx, reg, wg,
                   mu, ret, crashed, out>>

\* counter++ with no lock held, the write
SDRRacyWrite(g) ==
    /\ prog = "sync.exampleDataRace"
    /\ pc[g] = "racyWrite"
    /\ counter' = reg[g] + 1
    /\ pc' = [pc EXCEPT ![g] = "racyDeferred"]
    /\ UNCHANGED <<inputVars, heap, parVars, chanVars, timeVars, idx, reg, wg,
                   mu, ret, crashed, out>>

\* defer wg.Done() of the first loop's goroutine
SDRRacyDone(g) ==
    /\ prog = "sync.exampleDataRace"
    /\ pc[g] = "racyDeferred"
    /\ WgDone
    /\ pc' = [pc EXCEPT ![g] = "exited"]
    /\ UNCHANGED <<inputVars, heap, parVars, chanVars, lockVars, timeVars, idx,
                   reg, ret, crashed, out>>

\* wg.Wait(); fmt.Println("Counter with data race:", counter); counter = 0
SDRWaitReset ==
    /\ prog = "sync.exampleDataRace"
    /\ pc[0] = "loop" /\ idx = NumGoroutines
    /\ WgWaitReturns
    /\ out' = Append(out, <<"Counter with data race:", counter>>)
    /\ counter' = 0
    /\ pc' = [pc EXCEPT ![0] = "loop2"]
    /\ UNCHANGED <<inputVars, heap, parVars, chanVars, timeVars, idx, reg, wg,
                   mu, ret, crashed>>

\* second loop: for i := 0; i < 10; i++ { wg.Add(1); go func() {...}() }
SDRSpawnLocked ==
    /\ prog = "sync.exampleDataRace"
    /\ pc[0] = "loop2" /\ idx < 2 * NumGoroutines
    /\ idx' = idx + 1
    /\ WgAdd(1)
    /\ pc' = [pc EXCEPT ![idx + 1] = "lock"]
    /\ UNCHANGED <<inputVars, heap, parVars, chanVars, lockVars, timeVars, reg,
                   ret, crashed, out>>

\* wg.Wait(); fmt.Println("Counter with mutex:", counter)
SDRWaitPrint ==
    /\ prog = "sync.exampleDataRace"
    /\ pc[0] = "loop2" /\ idx = 2 * NumGoroutines
    /\ WgWaitReturns
    /\ out' = Append(out, <<"Counter with mutex:", counter>>)
    /\ pc' = [pc EXCEPT ![0] = "returned"]
    /\ UNCHANGED <<inputVars, heap, parVars, chanVars, lockVars, timeVars, idx,
                   reg, wg, ret, crashed>>

NextSyncDataRace ==
    \/ SDRSpawnRacy
    \/ \E g \in 1..NumGoroutines : SDRRacyRead(g)
    \/ \E g \in 1..NumGoroutines : SDRRacyWrite(g)
    \/ \E g \in 1..NumGoroutines : SDRRacyDone(g)
    \/ SDRWaitReset
    \/ SDRSpawnLocked
    \/ SDRWaitPrint

-----------------------------------------------------------------------------
\* ---- Cache and TestCache_ConcurrentAccess, 11-testing/concurency.md.
\* heap.items is the map of the cache, mu its mutex.  Goroutine g is the one
\* started with n = g - 1.  A map assignment is not atomic: it reads the
\* table and then writes it, and an assignment that comes between the two
\* is lost (without the lock the program has a data race, and a lost write
\* is one of its outcomes).

\* key := fmt.Sprintf("key%d", n)
KeyOf(n) == <<"key", n>>

\* val, ok := c.items[key]; return val, ok
CacheGet(key) ==
    IF key \in DOMAIN heap.items
      THEN [val |-> heap.items[key], ok |-> TRUE]
      ELSE [val |-> "", ok |-> FALSE]

\* A goroutine's register holds the table it read, empty before the read.
InitTestCache ==
    /\ prog = "TestCache_ConcurrentAccess"
    /\ slice = <<>>
    /\ workerFn = "none"
    /\ capacity = 0
    /\ dur = NoDurations
    /\ pc = [g \in 0..NumGoroutines |-> IF g = 0 THEN "loop" ELSE "unborn"]
    /\ reg = [g \in 0..NumGoroutines |-> <<>>]
    /\ idx = 0
    /\ wg = 0
    /\ ret = NoValue
    /\ crashed = FALSE
    /\ out = <<>>
    /\ NoFanOut /\ NoChannel /\ NoLock /\ NoClock /\ NoObjects

\* cache := &Cache{items: make(map[string]string)}
TCNewCache ==
    /\ prog = "TestCache_ConcurrentAccess"
    /\ pc[0] = "loop" /\ heap = <<>>
    /\ heap' = [items |-> <<>>]
    /\ UNCHANGED <<inputVars, parVars, chanVars, lockVars, timeVars, pc, idx,
                   reg, wg, ret, crashed, out>>

\* for i := 0; i < 100; i++ { wg.Add(1); go func(n int) {...}(i) }
TCSpawn ==
    /\ prog = "TestCache_ConcurrentAccess"
    /\ pc[0] = "loop" /\ heap # <<>> /\ idx < NumGoroutines
    /\ idx' = idx + 1
    /\ WgAdd(1)
    /\ pc' = [pc EXCEPT ![idx + 1] = "lock"]
    /\ UNCHANGED <<inputVars, heap, parVars, chanVars, lockVars, timeVars, reg,
                   ret, crashed, out>>

\* Set goes on without the lock: the mutation of CacheSetLock.
CacheSetLockSkipped(g) ==
    /\ prog = "TestCache_ConcurrentAccess"
    /\ pc[g] = "lock"
    /\ pc' = [pc EXCEPT ![g] = "read"]
    /\ UNCHANGED <<inputVars, heap, parVars, chanVars, lockVars, timeVars, idx,
                   reg, wg, ret, crashed, out>>

\* cache.Set(key, "value"): c.mu.Lock()
CacheSetLock(g) ==
    /\ prog = "TestCache_ConcurrentAccess"
    /\ pc[g] = "lock"
    /\ CanLock
    /\ mu' = TRUE
    /\ pc' = [pc EXCEPT ![g] = "read"]
    /\ UNCHANGED <<inputVars, heap, parVars, chanVars, timeVars, idx, reg, wg,
                   counter, ret, crashed, out>>

\* c.items[key] = value, the read of the table
CacheSetRead(g) ==
    /\ prog = "TestCache_ConcurrentAccess"
    /\ pc[g] = "read"
    /\ reg' = [reg EXCEPT ![g] = heap.items]
    /\ pc' = [pc EXCEPT ![g] = "write"]
    /\ UNCHANGED <<inputVars, heap, parVars, chanVars, lockVars, timeVars, idx,
                   wg, ret, crashed, out>>

\* c.items[key] = value, the write of the table with the key set
CacheSetWrite(g) ==
    /\ prog = "TestCache_ConcurrentAccess"
    /\ pc[g] = "write"
    /\ heap' = [heap EXCEPT !.items =
                   [k \in DOMAIN reg[g] \cup {KeyOf(g - 1)} |->
                       IF k = KeyOf(g - 1) THEN "value" ELSE reg[g][k]]]
    /\ pc' = [pc EXCEPT ![g] = "unlock"]
    /\ UNCHANGED <<inputVars, parVars, chanVars, lockVars, timeVars, idx, reg,
                   wg, ret, crashed, out>>

\* defer c.mu.Unlock(): Set returns
CacheSetUnlock(g) ==
    /\ prog = "TestCache_ConcurrentAccess"
    /\ pc[g] = "unlock"
    /\ mu' = FALSE
    /\ pc' = [pc EXCEPT ![g] = "deferred"]
    /\ UNCHANGED <<inputVars, heap, parVars, chanVars, timeVars, idx, reg, wg,
                   counter, ret, crashed, out>>

\* defer wg.Done()
TCDone(g) ==
    /\ prog = "TestCache_ConcurrentAccess"
    /\ pc[g] = "deferred"
    /\ WgDone
    /\ pc' = [pc EXCEPT ![g] = "exited"]
    /\ UNCHANGED <<inputVars, heap, parVars, chanVars, lockVars, timeVars, idx,
                   reg, ret, crashed, out>>

\* wg.Wait()
TCWait ==
    /\ prog = "TestCache_ConcurrentAccess"
    /\ pc[0] = "loop" /\ heap # <<>> /\ idx = NumGoroutines
    /\ WgWaitReturns
    /\ idx' = 0
    /\ pc' = [pc EXCEPT ![0] = "check"]
    /\ UNCHANGED <<inputVars, heap, parVars, chanVars, lockVars, timeVars, reg,
                   wg, ret, crashed, out>>

\* for i := 0; i < 100; i++ { key := ...; if val, ok := cache.Get(key);
\* !ok || val != "value" { t.Errorf(...) } }: one iteration.  Get locks,
\* looks the key up and unlocks; results collects the keys reported.
TCGet ==
    /\ prog = "TestCache_ConcurrentAccess"
    /\ pc[0] = "check" /\ idx < NumGoroutines
    /\ CanLock
    /\ results' = IF ~CacheGet(KeyOf(idx)).ok \/ CacheGet(KeyOf(idx)).val # "value"
                    THEN Append(results, KeyOf(idx))
                    ELSE results
    /\ idx' = idx + 1
    /\ UNCHANGED <<inputVars, heap, chanVars, lockVars, timeVars, pc, reg, wg,
                   result, calls, writers, order, ret, crashed, out>>

\* The test ends: it passes iff no key was reported.
TCFinish ==
    /\ prog = "TestCache_ConcurrentAccess"
    /\ pc[0] = "check" /\ idx = NumGoroutines
    /\ ret' = IF results = <<>> THEN <<"PASS">> ELSE <<"FAIL">>
    /\ pc' = [pc EXCEPT ![0] = "returned"]
    /\ UNCHANGED <<inputVars, heap, parVars, chanVars, lockVars, timeVars, idx,
                   reg, wg, crashed, out>>

NextTestCache ==
    \/ TCNewCache
    \/ TCSpawn
    \/ \E g \in DOMAIN pc \ {0} : CacheSetLock(g)
    \/ \E g \in DOMAIN pc \ {0} : CacheSetRead(g)
    \/ \E g \in DOMAIN pc \ {0} : CacheSetWrite(g)
    \/ \E g \in DOMAIN pc \ {0} : CacheSetUnlock(g)
    \/ \E g \in DOMAIN pc \ {0} : TCDone(g)
    \/ TCWait
    \/ TCGet
    \/ TCFinish

-----------------------------------------------------------------------------
\* ---- GetDatabase, 12-patterns/gof.md, and GetDBConnection of package
\* config: a package variable set inside once.Do and returned.  heap.once is
\* the sync.Once (done: its flag, m: its mutex is locked), heap.instance the
\* variable, heap.inits the number of runs of the function given to Do.
\* Goroutine 0 calls twice in a row, as main of gof.md does, and prints the
\* comparison of the two values; goroutines 1..NumGoroutines call once each,
\* at any moment.  reg[g] holds the values returned to g.

OnceProgs == {"GetDatabase", "GetDBConnection"}

\* The variable before the initialisation: a nil *Database (address 0, no
\* Database behind it), an empty string.
ZeroInstance(name) ==
    IF name = "GetDatabase" THEN [addr |-> 0, connection |-> ""] ELSE ""

\* What the function given to Do assigns: the address of a new Database
\* (the k-th allocated), the string "Initialized".
NewInstance(name, k) ==
    IF name = "GetDatabase"
      THEN [addr |-> k, connection |-> "mysql:3306"]
      ELSE "Initialized"

InitOnce ==
    /\ prog \in OnceProgs
    /\ slice = <<>>
    /\ workerFn = "none"
    /\ capacity = 0
    /\ dur = NoDurations
    /\ pc = [g \in 0..NumGoroutines |-> "call"]
    /\ reg = [g \in 0..NumGoroutines |-> <<>>]
    /\ idx = 0
    /\ wg = 0
    /\ ret = NoValue
    /\ crashed = FALSE
    /\ out = <<>>
    /\ heap = [once |-> [done |-> FALSE, m |-> FALSE],
               instance |-> ZeroInstance(prog), inits |-> 0]
    /\ NoFanOut /\ NoChannel /\ NoLock /\ NoClock

\* once.Do(f), the fast path: the flag is read without the lock; the call
\* of Do is over if it is set, and goes on to the mutex if not.
OnceDo(g) ==
    /\ prog \in OnceProgs
    /\ pc[g] = "call"
    /\ pc' = [pc EXCEPT ![g] = IF heap.once.done THEN "return" ELSE "lock"]
    /\ UNCHANGED <<inputVars, heap, parVars, chanVars, lockVars, timeVars, idx,
                   reg, wg, ret, crashed, out>>

\* The flag is not read again under the mutex: the mutation of OnceLock.
OnceLockWithoutRecheck(g) ==
    /\ prog \in OnceProgs
    /\ pc[g] = "lock"
    /\ ~heap.once.m
    /\ heap' = [heap EXCEPT !.once.m = TRUE]
    /\ pc' = [pc EXCEPT ![g] = "init"]
    /\ UNCHANGED <<inputVars, parVars, chanVars, lockVars, timeVars, idx, reg,
                   wg, ret, crashed, out>>

\* once.Do(f), the slow path: the mutex of the Once is taken and the flag
\* read again; f is to run only if it is still unset.
OnceLock(g) ==
    /\ prog \in OnceProgs
    /\ pc[g] = "lock"
    /\ ~heap.once.m
    /\ heap' = [heap EXCEPT !.once.m = TRUE]
    /\ pc' = [pc EXCEPT ![g] = IF heap.once.done THEN "unlock" ELSE "init"]
    /\ UNCHANGED <<inputVars, parVars, chanVars, lockVars, timeVars, idx, reg,
                   wg, ret, crashed, out>>

\* f(): instance = &Database{connection: "mysql:3306"}, or
\* dbConnection = "Initialized"
OnceInit(g) ==
    /\ prog \in OnceProgs
    /\ pc[g] = "init"
    /\ heap' = [heap EXCEPT !.instance = NewInstance(prog, heap.inits + 1),
                            !.inits = @ + 1]
    /\ pc' = [pc EXCEPT ![g] = "store"]
    /\ UNCHANGED <<inputVars, parVars, chanVars, lockVars, timeVars, idx, reg,
                   wg, ret, crashed, out>>

\* Do returns: the flag is set if f has run, and the mutex released.
OnceUnlock(g) ==
    /\ prog \in OnceProgs
    /\ pc[g] \in {"store", "unlock"}
    /\ heap' = [heap EXCEPT !.once.done = @ \/ pc[g] = "store",
                            !.once.m = FALSE]
    /\ pc' = [pc EXCEPT ![g] = "return"]
    /\ UNCHANGED <<inputVars, parVars, chanVars, lockVars, timeVars, idx, reg,
                   wg, ret, crashed, out>>

\* return instance; the caller of gof.md calls a second time and then
\* prints db1 == db2.
OnceReturn(g) ==
    /\ prog \in OnceProgs
    /\ pc[g] = "return"
    /\ reg' = [reg EXCEPT ![g] = Append(@, heap.instance)]
    /\ IF g = 0 /\ reg[g] = <<>>
         THEN /\ pc' = [pc EXCEPT ![g] = "call"]
              /\ out' = out
         ELSE /\ pc' = [pc EXCEPT ![g] = IF g = 0 THEN "returned" ELSE "exited"]
              /\ out' = IF g = 0
                          THEN Append(out, <<reg[g][1] = heap.instance>>)
                          ELSE out
    /\ UNCHANGED <<inputVars, heap, parVars, chanVars, lockVars, timeVars, idx,
                   wg, ret, crashed>>

NextOnce ==
    \/ \E g \in DOMAIN pc : OnceDo(g)
    \/ \E g \in DOMAIN pc : OnceLock(g)
    \/ \E g \in DOMAIN pc : OnceInit(g)
    \/ \E g \in DOMAIN pc : OnceUnlock(g)
    \/ \E g \in DOMAIN pc : OnceReturn(g)

-----------------------------------------------------------------------------
(* The pool of slots of exampleSyncBestPractices. *)

InitSlots == InitSyncBestPractices

NextSlots == NextSyncBestPractices

SpecSlots == InitSlots /\ [][NextSlots]_vars

\* The scheduler runs every goroutine that can take a step.
SpecSlotsFair == SpecSlots /\ WF_vars(NextSlots)

\* exampleSyncBestPractices: the goroutines between ch <- i and <-ch.
InSlot == {g \in DOMAIN pc \ {0} : pc[g] = "work"}

\* C4: in exampleSyncBestPractices at most 5 goroutines, the capacity of
\* the channel, are between acquiring a slot (ch <- i) and releasing it
\* (<-ch), in every reachable state.
C4_AtMostCapacityActive ==
    prog = "exampleSyncBestPractices" => Cardinality(InSlot) <= SlotChanCap

\* All five slots are taken and a sixth goroutine stands blocked at its send.
C4_Witness ==
    /\ prog = "exampleSyncBestPractices"
    /\ Cardinality(InSlot) = SlotChanCap
    /\ \E g \in DOMAIN pc : pc[g] = "acquire"

-----------------------------------------------------------------------------
(* The examples of misuse in 08-sync/main.go.                              *)

\* ---- exampleMutexErrors: mu.Lock(); mu.Lock(); mu.Unlock().  pc[0] is the
\* statement the function is at: "loop" the first Lock, "second" the second
\* Lock, "unlock" the Unlock.  idx counts the Lock calls that returned.

InitMutexErrors == InitLoop("exampleMutexErrors", 0, 0)

\* The statement after the one at label l.
EMEAfter(l) ==
    CASE l = "loop" -> "second"
      [] l = "second" -> "unlock"
      [] l = "unlock" -> "returned"

\* Lock returns without taking the mutex: the mutation of EMEStatement.
EMEStatementLockFree ==
    /\ prog = "exampleMutexErrors"
    /\ pc[0] \in {"loop", "second", "unlock"}
    /\ mu' = FALSE
    /\ idx' = IF pc[0] = "unlock" THEN idx ELSE idx + 1
    /\ pc' = [pc EXCEPT ![0] = EMEAfter(pc[0])]
    /\ UNCHANGED <<inputVars, heap, parVars, chanVars, timeVars, reg, wg,
                   counter, ret, crashed, out>>

\* The function's next statement: mu.Lock() returns only when the mutex is
\* free and takes it, whichever goroutine holds it; mu.Unlock() frees it.
EMEStatement ==
    /\ prog = "exampleMutexErrors"
    /\ pc[0] \in {"loop", "second", "unlock"}
    /\ pc[0] # "unlock" => CanLock
    /\ mu' = (pc[0] # "unlock")
    /\ idx' = IF pc[0] = "unlock" THEN idx ELSE idx + 1
    /\ pc' = [pc EXCEPT ![0] = EMEAfter(pc[0])]
    /\ UNCHANGED <<inputVars, heap, parVars, chanVars, timeVars, reg, wg,
                   counter, ret, crashed, out>>

\* ---- exampleWaitGroupErrors, 08-sync/main.go.  Goroutine 1 is the one
\* started without wg.Add (it runs a deferred wg.Done), goroutine 2 the one
\* started after wg.Add(1) (it has no wg.Done).

InitWaitGroupErrors == InitLoop("exampleWaitGroupErrors", 2, 0)

\* go func() { defer wg.Done(); fmt.Println("Working...") }(), with no
\* wg.Add before it
WGEGoWithoutAdd ==
    /\ prog = "exampleWaitGroupErrors" /\ ~crashed
    /\ pc[0] = "loop"
    /\ pc' = [pc EXCEPT ![0] = "wait", ![1] = "print"]
    /\ UNCHANGED <<inputVars, heap, parVars, chanVars, lockVars, timeVars, idx,
                   reg, wg, ret, crashed, out>>

\* wg.Wait(), the first and the second: idx counts the ones that returned.
WGEWait ==
    /\ prog = "exampleWaitGroupErrors" /\ ~crashed
    /\ pc[0] \in {"wait", "wait again"}
    /\ WgWaitReturns
    /\ idx' = idx + 1
    /\ pc' = [pc EXCEPT ![0] = IF pc[0] = "wait" THEN "add" ELSE "returned"]
    /\ UNCHANGED <<inputVars, heap, parVars, chanVars, lockVars, timeVars, reg,
                   wg, ret, crashed, out>>

\* wg.Add(1); go func() { fmt.Println("Working...") }()
WGEAddGo ==
    /\ prog = "exampleWaitGroupErrors" /\ ~crashed
    /\ pc[0] = "add"
    /\ WgAdd(1)
    /\ pc' = [pc EXCEPT ![0] = "wait again", ![2] = "print"]
    /\ UNCHANGED <<inputVars, heap, parVars, chanVars, lockVars, timeVars, idx,
                   reg, ret, crashed, out>>

\* fmt.Println("Working...")
WGEPrint(g) ==
    /\ prog = "exampleWaitGroupErrors" /\ ~crashed
    /\ pc[g] = "print"
    /\ out' = Append(out, <<"Working...">>)
    /\ pc' = [pc EXCEPT ![g] = IF g = 1 THEN "deferred" ELSE "exited"]
    /\ UNCHANGED <<inputVars, heap, parVars, chanVars, lockVars, timeVars, idx,
                   reg, wg, ret, crashed>>

\* defer wg.Done(): Done is Add(-1), which panics with "sync: negative
\* WaitGroup counter" when the counter would go below zero; nothing in the
\* goroutine recovers, so the process dies.
WGEDone(g) ==
    /\ prog = "exampleWaitGroupErrors" /\ ~crashed
    /\ pc[g] = "deferred"
    /\ IF wg = 0
         THEN /\ crashed' = TRUE
              /\ wg' = wg
              /\ pc' = [pc EXCEPT ![g] = "fatal"]
         ELSE /\ crashed' = crashed
              /\ WgDone
              /\ pc' = [pc EXCEPT ![g] = "exited"]
    /\ UNCHANGED <<inputVars, heap, parVars, chanVars, lockVars, timeVars, idx,
                   reg, ret, out>>

NextWaitGroupErrors ==
    \/ WGEGoWithoutAdd
    \/ WGEWait
    \/ WGEAddGo
    \/ \E g \in {1, 2} : WGEPrint(g)
    \/ \E g \in {1, 2} : WGEDone(g)

-----------------------------------------------------------------------------
(* The shared counters. *)

InitSync ==
    \/ InitErrorsDataRace
    \/ InitMutexErrors
    \/ InitWaitGroupErrors
    \/ InitExampleMutex
    \/ InitTestIncrementSafe
    \/ InitSyncDataRace
    \/ InitTestCache
    \/ InitOnce

NextSync ==
    \/ NextErrorsDataRace
    \/ EMEStatement
    \/ NextWaitGroupErrors
    \/ NextMutexGoroutine
    \/ EMSpawn
    \/ EMWaitPrint
    \/ TISSpawn
    \/ TISWaitCompare
    \/ NextSyncDataRace
    \/ NextTestCache
    \/ NextOnce

SpecSync == InitSync /\ [][NextSync]_vars

\* C5: when N goroutines each increment the counter once under the mutex,
\* the counter is exactly N once wg.Wait has returned (exampleMutex, the
\* second loop of exampleDataRace, TestIncrementSafe, whose comparison
\* passes), in every interleaving.
C5_CounterEqualsGoroutines ==
    (prog \in MutexProgs /\ pc[0] = "returned") =>
        /\ counter = NumGoroutines
        /\ prog = "TestIncrementSafe" => ret = <<"PASS">>
        /\ prog = "exampleMutex" => out = <<<<"Counter:", NumGoroutines>>>>
        /\ prog = "sync.exampleDataRace" =>
              out[2] = <<"Counter with mutex:", NumGoroutines>>

\* TestIncrementSafe has returned: every goroutine has incremented under
\* the mutex and the comparison passed.
C5_Witness ==
    /\ prog = "TestIncrementSafe" /\ pc[0] = "returned"
    /\ \A g \in 1..NumGoroutines : pc[g] = "exited"
    /\ counter = NumGoroutines /\ ret = <<"PASS">>

\* exampleDataRace of 07-errors: the goroutines between ch <- 1 and <-ch.
InCritical ==
    {g \in DOMAIN pc \ {0} : pc[g] \in {"read", "write", "release"}}

\* C6: with the channel of capacity 1 as the only slot, no two goroutines
\* of exampleDataRace (07-errors) are between ch <- 1 and <-ch at once, so
\* every increment reads the value the previous one wrote: the counter
\* printed is the number of goroutines.
C6_OneSlotSerializes ==
    prog = "errors.exampleDataRace" =>
        /\ Cardinality(InCritical) <= 1
        /\ \A g \in InCritical : pc[g] = "write" => reg[g] = counter
        /\ pc[0] = "returned" => out = <<<<"Counter:", NumGoroutines>>>>

\* One goroutine is between its read and its write while another stands
\* blocked at ch <- 1.
C6_Witness ==
    /\ prog = "errors.exampleDataRace"
    /\ \E g, h \in DOMAIN pc : pc[g] = "write" /\ pc[h] = "acquire"

-----------------------------------------------------------------------------
(* Contexts, timers and time.  The clock counts ticks of 500 ms, the       *)
(* common measure of the durations of the examples.  A goroutine that can  *)
(* take a step takes it before the clock advances: the examples give their *)
(* goroutines whole seconds for steps that take microseconds.              *)

\* context.WithCancel(context.Background())
WithCancel == [done |-> FALSE, err |-> "nil", deadline |-> NoTimer]

\* context.WithTimeout(context.Background(), d), made at the present tick
WithTimeout(d) == [done |-> FALSE, err |-> "nil", deadline |-> now + d]

\* cancel(), and the deadline's timer with why = "DeadlineExceeded": the
\* first cancellation closes Done and sets Err; a later one returns at once.
CancelOverwrites(c, why) == [c EXCEPT !.done = TRUE, !.err = why]

Cancel(c, why) ==
    IF c.done THEN c ELSE [c EXCEPT !.done = TRUE, !.err = why]

\* case <-ctx.Done(): ready once Done is closed.
DoneReady(c) == c.done

\* A receive from the closed Done channel leaves it closed: every receiver,
\* present or future, passes.
AfterDoneRecvConsumes(c) == [c EXCEPT !.done = FALSE]

AfterDoneRecv(c) == c

\* The context's deadline has come.
DeadlineDueNever(c) == FALSE

DeadlineDue(c) == c.deadline # NoTimer /\ now >= c.deadline

\* The longest duration a function is run with, and the durations.
MaxTicks == 8

Ticks == 1..MaxTicks

\* The Sleep or time.After of goroutine g has run out.
TimerDue(g) == timer[g] # NoTimer /\ now >= timer[g]

InitTimed(name, n, durations) ==
    /\ prog = name
    /\ slice = <<>>
    /\ workerFn = "none"
    /\ capacity = 0
    /\ dur \in durations
    /\ pc = [g \in 0..n |-> IF g = 0 THEN "start" ELSE "unborn"]
    /\ reg = [g \in 0..n |-> 0]
    /\ idx = 0
    /\ wg = 0
    /\ ret = NoValue
    /\ crashed = FALSE
    /\ out = <<>>
    /\ NoFanOut /\ NoChannel /\ NoLock /\ NoClock /\ NoObjects

\* The timer of a context with a deadline fires: the context is cancelled
\* with context.DeadlineExceeded unless it was cancelled before.
CtxDeadline ==
    /\ ~ctx.done
    /\ DeadlineDue(ctx)
    /\ ctx' = Cancel(ctx, "DeadlineExceeded")
    /\ UNCHANGED <<inputVars, heap, parVars, chanVars, lockVars, pc, idx, reg,
                   wg, now, timer, ret, crashed, out>>

\* ---- exampleContextUsage, 08-context/main.go.  The function is run with
\* its three durations as written and with every other choice of them, so
\* that each branch of its select is taken in some run.

\* context.WithTimeout(..., 2*time.Second)
UsageTimeout == 4

\* time.After(3 * time.Second)
UsageWork == 6

\* time.Sleep(4 * time.Second)
UsageWait == 8

\* The durations of the source.
UsageAsWritten ==
    [timeout |-> UsageTimeout, work |-> UsageWork, wait |-> UsageWait]

InitContextUsage ==
    InitTimed("exampleContextUsage", 1,
              [timeout : Ticks, work : Ticks, wait : Ticks])

\* ctx, cancel := context.WithTimeout(context.Background(), 2*time.Second)
\* defer cancel()
ECUWithTimeout ==
    /\ prog = "exampleContextUsage"
    /\ pc[0] = "start"
    /\ ctx' = WithTimeout(dur.timeout)
    /\ pc' = [pc EXCEPT ![0] = "go"]
    /\ UNCHANGED <<inputVars, heap, parVars, chanVars, lockVars, idx, reg, wg,
                   now, timer, ret, crashed, out>>

\* go func(ctx context.Context) {...}(ctx)
ECUGo ==
    /\ prog = "exampleContextUsage"
    /\ pc[0] = "go"
    /\ pc' = [pc EXCEPT ![0] = "sleep", ![1] = "select"]
    /\ UNCHANGED <<inputVars, heap, parVars, chanVars, lockVars, timeVars, idx,
                   reg, wg, ret, crashed, out>>

\* time.Sleep(4 * time.Second), begun
ECUSleep ==
    /\ prog = "exampleContextUsage"
    /\ pc[0] = "sleep"
    /\ timer' = [timer EXCEPT ![0] = now + dur.wait]
    /\ pc' = [pc EXCEPT ![0] = "sleeping"]
    /\ UNCHANGED <<inputVars, heap, parVars, chanVars, lockVars, idx, reg, wg,
                   ctx, now, ret, crashed, out>>

\* time.Sleep(4 * time.Second), over: the function returns
ECUWake ==
    /\ prog = "exampleContextUsage"
    /\ pc[0] = "sleeping"
    /\ TimerDue(0)
    /\ timer' = [timer EXCEPT ![0] = NoTimer]
    /\ pc' = [pc EXCEPT ![0] = "deferred"]
    /\ UNCHANGED <<inputVars, heap, parVars, chanVars, lockVars, idx, reg, wg,
                   ctx, now, ret, crashed, out>>

\* the deferred cancel()
ECUDeferredCancel ==
    /\ prog = "exampleContextUsage"
    /\ pc[0] = "deferred"
    /\ ctx' = Cancel(ctx, "Canceled")
    /\ pc' = [pc EXCEPT ![0] = "returned"]
    /\ UNCHANGED <<inputVars, heap, parVars, chanVars, lockVars, idx, reg, wg,
                   now, timer, ret, crashed, out>>

\* select { case <-time.After(3 * time.Second): ... case <-ctx.Done(): ... }
\* entered: the timer of time.After is started.
ECUSelect ==
    /\ prog = "exampleContextUsage"
    /\ pc[1] = "select"
    /\ timer' = [timer EXCEPT ![1] = now + dur.work]
    /\ pc' = [pc EXCEPT ![1] = "blocked"]
    /\ UNCHANGED <<inputVars, heap, parVars, chanVars, lockVars, idx, reg, wg,
                   ctx, now, ret, crashed, out>>

\* case <-time.After(3 * time.Second): the line printed says the work is done
ECUWorkDone ==
    /\ prog = "exampleContextUsage"
    /\ pc[1] = "blocked"
    /\ TimerDue(1)
    /\ out' = Append(out, <<"work completed">>)
    /\ timer' = [timer EXCEPT ![1] = NoTimer]
    /\ pc' = [pc EXCEPT ![1] = "exited"]
    /\ UNCHANGED <<inputVars, heap, parVars, chanVars, lockVars, idx, reg, wg,
                   ctx, now, ret, crashed>>

\* case <-ctx.Done(): the line printed says the context is cancelled, with
\* ctx.Err()
ECUCtxDone ==
    /\ prog = "exampleContextUsage"
    /\ pc[1] = "blocked"
    /\ DoneReady(ctx)
    /\ ctx' = AfterDoneRecv(ctx)
    /\ out' = Append(out, <<"context cancelled", ctx.err>>)
    /\ timer' = [timer EXCEPT ![1] = NoTimer]
    /\ pc' = [pc EXCEPT ![1] = "exited"]
    /\ UNCHANGED <<inputVars, heap, parVars, chanVars, lockVars, idx, reg, wg,
                   now, ret, crashed>>

NextContextUsage ==
    \/ ECUWithTimeout
    \/ ECUGo
    \/ ECUSleep
    \/ ECUWake
    \/ ECUDeferredCancel
    \/ ECUSelect
    \/ ECUWorkDone
    \/ ECUCtxDone

\* ---- exampleContextPassing, 08-context/main.go

\* time.Sleep(1 * time.Second) before cancel()
PassingWait == 2

\* time.Sleep(1 * time.Second) after cancel()
PassingGrace == 2

\* The durations of the source.
PassingAsWritten == [wait |-> PassingWait, grace |-> PassingGrace]

InitContextPassing ==
    InitTimed("exampleContextPassing", 2, [wait : Ticks, grace : Ticks])

\* ctx, cancel := context.WithCancel(context.Background()); defer cancel()
ECPWithCancel ==
    /\ prog = "exampleContextPassing"
    /\ pc[0] = "start"
    /\ ctx' = WithCancel
    /\ pc' = [pc EXCEPT ![0] = "go1"]
    /\ UNCHANGED <<inputVars, heap, parVars, chanVars, lockVars, idx, reg, wg,
                   now, timer, ret, crashed, out>>

\* the first go func(ctx context.Context) {...}(ctx)
ECPGo1 ==
    /\ prog = "exampleContextPassing"
    /\ pc[0] = "go1"
    /\ pc' = [pc EXCEPT ![0] = "go2", ![1] = "select"]
    /\ UNCHANGED <<inputVars, heap, parVars, chanVars, lockVars, timeVars, idx,
                   reg, wg, ret, crashed, out>>

\* the second go func(ctx context.Context) {...}(ctx)
ECPGo2 ==
    /\ prog = "exampleContextPassing"
    /\ pc[0] = "go2"
    /\ pc' = [pc EXCEPT ![0] = "sleep1", ![2] = "select"]
    /\ UNCHANGED <<inputVars, heap, parVars, chanVars, lockVars, timeVars, idx,
                   reg, wg, ret, crashed, out>>

\* time.Sleep(1 * time.Second), begun
ECPSleep1 ==
    /\ prog = "exampleContextPassing"
    /\ pc[0] = "sleep1"
    /\ timer' = [timer EXCEPT ![0] = now + dur.wait]
    /\ pc' = [pc EXCEPT ![0] = "sleeping1"]
    /\ UNCHANGED <<inputVars, heap, parVars, chanVars, lockVars, idx, reg, wg,
                   ctx, now, ret, crashed, out>>

\* time.Sleep(1 * time.Second), over
ECPWake1 ==
    /\ prog = "exampleContextPassing"
    /\ pc[0] = "sleeping1"
    /\ TimerDue(0)
    /\ timer' = [timer EXCEPT ![0] = NoTimer]
    /\ pc' = [pc EXCEPT ![0] = "cancel"]
    /\ UNCHANGED <<inputVars, heap, parVars, chanVars, lockVars, idx, reg, wg,
                   ctx, now, ret, crashed, out>>

\* cancel()
ECPCancel ==
    /\ prog = "exampleContextPassing"
    /\ pc[0] = "cancel"
    /\ ctx' = Cancel(ctx, "Canceled")
    /\ pc' = [pc EXCEPT ![0] = "sleep2"]
    /\ UNCHANGED <<inputVars, heap, parVars, chanVars, lockVars, idx, reg, wg,
                   now, timer, ret, crashed, out>>

\* the second time.Sleep(1 * time.Second), begun
ECPSleep2 ==
    /\ prog = "exampleContextPassing"
    /\ pc[0] = "sleep2"
    /\ timer' = [timer EXCEPT ![0] = now + dur.grace]
    /\ pc' = [pc EXCEPT ![0] = "sleeping2"]
    /\ UNCHANGED <<inputVars, heap, parVars, chanVars, lockVars, idx, reg, wg,
                   ctx, now, ret, crashed, out>>

\* the second time.Sleep(1 * time.Second), over: the function returns
ECPWake2 ==
    /\ prog = "exampleContextPassing"
    /\ pc[0] = "sleeping2"
    /\ TimerDue(0)
    /\ timer' = [timer EXCEPT ![0] = NoTimer]
    /\ pc' = [pc EXCEPT ![0] = "deferred"]
    /\ UNCHANGED <<inputVars, heap, parVars, chanVars, lockVars, idx, reg, wg,
                   ctx, now, ret, crashed, out>>

\* the deferred cancel()
ECPDeferredCancel ==
    /\ prog = "exampleContextPassing"
    /\ pc[0] = "deferred"
    /\ ctx' = Cancel(ctx, "Canceled")
    /\ pc' = [pc EXCEPT ![0] = "returned"]
    /\ UNCHANGED <<inputVars, heap, parVars, chanVars, lockVars, idx, reg, wg,
                   now, timer, ret, crashed, out>>

\* select { case <-ctx.Done(): ... } entered: the goroutine waits on Done
ECPSelect(g) ==
    /\ prog = "exampleContextPassing"
    /\ pc[g] = "select"
    /\ pc' = [pc EXCEPT ![g] = "blocked"]
    /\ UNCHANGED <<inputVars, heap, parVars, chanVars, lockVars, timeVars, idx,
                   reg, wg, ret, crashed, out>>

\* case <-ctx.Done(): goroutine g prints that the context is cancelled
ECPCtxDone(g) ==
    /\ prog = "exampleContextPassing"
    /\ pc[g] = "blocked"
    /\ DoneReady(ctx)
    /\ ctx' = AfterDoneRecv(ctx)
    /\ out' = Append(out, <<"goroutine", g, "context cancelled">>)
    /\ pc' = [pc EXCEPT ![g] = "exited"]
    /\ UNCHANGED <<inputVars, heap, parVars, chanVars, lockVars, idx, reg, wg,
                   now, timer, ret, crashed>>

NextContextPassing ==
    \/ ECPWithCancel
    \/ ECPGo1
    \/ ECPGo2
    \/ ECPSleep1
    \/ ECPWake1
    \/ ECPCancel
    \/ ECPSleep2
    \/ ECPWake2
    \/ ECPDeferredCancel
    \/ \E g \in {1, 2} : ECPSelect(g)
    \/ \E g \in {1, 2} : ECPCtxDone(g)

\* ---- processWithTimeout and its call in main, 05-how-to-use/main.go

\* context.WithTimeout(context.Background(), 1*time.Second)
MainTimeout == 2

\* time.Sleep(500 * time.Millisecond) before cancel()
MainWait == 1

\* time.After(2 * time.Second)
ProcessWork == 4

\* The durations of the source.
ProcessAsWritten ==
    [timeout |-> MainTimeout, work |-> ProcessWork, wait |-> MainWait]

InitProcessWithTimeout ==
    InitTimed("processWithTimeout", 1,
              [timeout : Ticks, work : Ticks, wait : Ticks])

\* ctx, cancel := context.WithTimeout(context.Background(), 1*time.Second)
MPTWithTimeout ==
    /\ prog = "processWithTimeout"
    /\ pc[0] = "start"
    /\ ctx' = WithTimeout(dur.timeout)
    /\ pc' = [pc EXCEPT ![0] = "go"]
    /\ UNCHANGED <<inputVars, heap, parVars, chanVars, lockVars, idx, reg, wg,
                   now, timer, ret, crashed, out>>

\* wg.Add(1); go processWithTimeout(ctx, &wg)
MPTAddGo ==
    /\ prog = "processWithTimeout"
    /\ pc[0] = "go"
    /\ WgAdd(1)
    /\ pc' = [pc EXCEPT ![0] = "sleep", ![1] = "select"]
    /\ UNCHANGED <<inputVars, heap, parVars, chanVars, lockVars, timeVars, idx,
                   reg, ret, crashed, out>>

\* time.Sleep(500 * time.Millisecond), begun
MPTSleep ==
    /\ prog = "processWithTimeout"
    /\ pc[0] = "sleep"
    /\ timer' = [timer EXCEPT ![0] = now + dur.wait]
    /\ pc' = [pc EXCEPT ![0] = "sleeping"]
    /\ UNCHANGED <<inputVars, heap, parVars, chanVars, lockVars, idx, reg, wg,
                   ctx, now, ret, crashed, out>>

\* time.Sleep(500 * time.Millisecond), over
MPTWake ==
    /\ prog = "processWithTimeout"
    /\ pc[0] = "sleeping"
    /\ TimerDue(0)
    /\ timer' = [timer EXCEPT ![0] = NoTimer]
    /\ pc' = [pc EXCEPT ![0] = "cancel"]
    /\ UNCHANGED <<inputVars, heap, parVars, chanVars, lockVars, idx, reg, wg,
                   ctx, now, ret, crashed, out>>

\* cancel()
MPTCancel ==
    /\ prog = "processWithTimeout"
    /\ pc[0] = "cancel"
    /\ ctx' = Cancel(ctx, "Canceled")
    /\ pc' = [pc EXCEPT ![0] = "wait"]
    /\ UNCHANGED <<inputVars, heap, parVars, chanVars, lockVars, idx, reg, wg,
                   now, timer, ret, crashed, out>>

\* wg.Wait()
MPTWait ==
    /\ prog = "processWithTimeout"
    /\ pc[0] = "wait"
    /\ WgWaitReturns
    /\ pc' = [pc EXCEPT ![0] = "returned"]
    /\ UNCHANGED <<inputVars, heap, parVars, chanVars, lockVars, timeVars, idx,
                   reg, wg, ret, crashed, out>>

\* select { case <-time.After(2 * time.Second): ... case <-ctx.Done(): ... }
\* entered: the timer of time.After is started.
PWTSelect ==
    /\ prog = "processWithTimeout"
    /\ pc[1] = "select"
    /\ timer' = [timer EXCEPT ![1] = now + dur.work]
    /\ pc' = [pc EXCEPT ![1] = "blocked"]
    /\ UNCHANGED <<inputVars, heap, parVars, chanVars, lockVars, idx, reg, wg,
                   ctx, now, ret, crashed, out>>

\* case <-time.After(2 * time.Second): fmt.Println("Process completed")
PWTCompleted ==
    /\ prog = "processWithTimeout"
    /\ pc[1] = "blocked"
    /\ TimerDue(1)
    /\ out' = Append(out, <<"Process completed">>)
    /\ timer' = [timer EXCEPT ![1] = NoTimer]
    /\ pc' = [pc EXCEPT ![1] = "deferred"]
    /\ UNCHANGED <<inputVars, heap, parVars, chanVars, lockVars, idx, reg, wg,
                   ctx, now, ret, crashed>>

\* case <-ctx.Done(): fmt.Println("Process cancelled")
PWTCancelled ==
    /\ prog = "processWithTimeout"
    /\ pc[1] = "blocked"
    /\ DoneReady(ctx)
    /\ ctx' = AfterDoneRecv(ctx)
    /\ out' = Append(out, <<"Process cancelled">>)
    /\ timer' = [timer EXCEPT ![1] = NoTimer]
    /\ pc' = [pc EXCEPT ![1] = "deferred"]
    /\ UNCHANGED <<inputVars, heap, parVars, chanVars, lockVars, idx, reg, wg,
                   now, ret, crashed>>

\* defer wg.Done()
PWTDone ==
    /\ prog = "processWithTimeout"
    /\ pc[1] = "deferred"
    /\ WgDone
    /\ pc' = [pc EXCEPT ![1] = "exited"]
    /\ UNCHANGED <<inputVars, heap, parVars, chanVars, lockVars, timeVars, idx,
                   reg, ret, crashed, out>>

NextProcessWithTimeout ==
    \/ MPTWithTimeout
    \/ MPTAddGo
    \/ MPTSleep
    \/ MPTWake
    \/ MPTCancel
    \/ MPTWait
    \/ PWTSelect
    \/ PWTCompleted
    \/ PWTCancelled
    \/ PWTDone

\* ---- exampleGoroutinePanic, 07-errors/main.go

\* time.Sleep(time.Second)
PanicWait == 2

\* The duration of the source.
PanicAsWritten == [wait |-> PanicWait]

InitGoroutinePanic == InitTimed("exampleGoroutinePanic", 1, [wait : Ticks])

\* go func() {...}()
EGPGo ==
    /\ prog = "exampleGoroutinePanic"
    /\ pc[0] = "start"
    /\ pc' = [pc EXCEPT ![0] = "sleep", ![1] = "panic"]
    /\ UNCHANGED <<inputVars, heap, parVars, chanVars, lockVars, timeVars, idx,
                   reg, wg, ret, crashed, out>>

\* time.Sleep(time.Second), begun
EGPSleep ==
    /\ prog = "exampleGoroutinePanic"
    /\ pc[0] = "sleep"
    /\ timer' = [timer EXCEPT ![0] = now + dur.wait]
    /\ pc' = [pc EXCEPT ![0] = "sleeping"]
    /\ UNCHANGED <<inputVars, heap, parVars, chanVars, lockVars, idx, reg, wg,
                   ctx, now, ret, crashed, out>>

\* time.Sleep(time.Second), over; fmt.Println("Main goroutine continues")
EGPContinue ==
    /\ prog = "exampleGoroutinePanic"
    /\ pc[0] = "sleeping"
    /\ TimerDue(0)
    /\ timer' = [timer EXCEPT ![0] = NoTimer]
    /\ out' = Append(out, <<"Main goroutine continues">>)
    /\ pc' = [pc EXCEPT ![0] = "returned"]
    /\ UNCHANGED <<inputVars, heap, parVars, chanVars, lockVars, idx, reg, wg,
                   ctx, now, ret, crashed>>

\* panic("goroutine panic"): the deferred function is run
EGPPanic ==
    /\ prog = "exampleGoroutinePanic"
    /\ pc[1] = "panic"
    /\ pc' = [pc EXCEPT ![1] = "panicking"]
    /\ UNCHANGED <<inputVars, heap, parVars, chanVars, lockVars, timeVars, idx,
                   reg, wg, ret, crashed, out>>

\* if r := recover(); r != nil { fmt.Println("Recovered in goroutine:", r) }
\* the panic is stopped and the goroutine ends normally.
EGPRecover ==
    /\ prog = "exampleGoroutinePanic"
    /\ pc[1] = "panicking"
    /\ out' = Append(out, <<"Recovered in goroutine:", "goroutine panic">>)
    /\ pc' = [pc EXCEPT ![1] = "exited"]
    /\ UNCHANGED <<inputVars, heap, parVars, chanVars, lockVars, timeVars, idx,
                   reg, wg, ret, crashed>>

NextGoroutinePanic ==
    \/ EGPGo
    \/ EGPSleep
    \/ EGPContinue
    \/ EGPPanic
    \/ EGPRecover

-----------------------------------------------------------------------------
\* ---- exampleSelect, exampleTimeout and exampleMultipleChannelsWithTimeout,
\* 07-select/main.go.  Each starts one goroutine per channel, which sleeps
\* and then sends on its unbuffered channel, and waits in one select for the
\* first of the channels (and of time.After, where the select has that
\* case).  Goroutine g sends on the g-th channel.  The functions are run with
\* their durations as written and with every other choice of them; out holds
\* the line the select prints and ret the tick at which the function returns,
\* as <<"at", tick>>.

SelectProgs ==
    {"exampleSelect", "exampleTimeout", "exampleMultipleChannelsWithTimeout"}

\* The channels of the function, one sending goroutine each.
Producers(name) == IF name = "exampleTimeout" THEN 1 ELSE 2

\* The select of the function has a case <-time.After(...).
HasTimeout(name) == name # "exampleSelect"

\* The durations of the source: the Sleep of each goroutine and the timeout.
SelectAsWritten(name) ==
    CASE name = "exampleSelect" -> [send |-> <<2, 4>>, timeout |-> NoTimer]
      [] name = "exampleTimeout" -> [send |-> <<6>>, timeout |-> 4]
      [] name = "exampleMultipleChannelsWithTimeout" ->
             [send |-> <<2, 6>>, timeout |-> 4]

InitSelectExamples ==
    \E name \in SelectProgs :
        InitTimed(name, Producers(name),
                  [send : [1..Producers(name) -> Ticks],
                   timeout : IF HasTimeout(name) THEN Ticks ELSE {NoTimer}])

\* go func() { time.Sleep(...); ch <- "..." }(), one go statement after the
\* other
SelGo ==
    /\ prog \in SelectProgs
    /\ pc[0] = "start" /\ idx < Producers(prog)
    /\ idx' = idx + 1
    /\ pc' = [pc EXCEPT ![idx + 1] = "sleep"]
    /\ UNCHANGED <<inputVars, heap, parVars, chanVars, lockVars, timeVars, reg,
                   wg, ret, crashed, out>>

\* time.Sleep(...) of the sending goroutine, begun
SelSleep(g) ==
    /\ prog \in SelectProgs
    /\ g \in 1..Producers(prog) /\ pc[g] = "sleep"
    /\ timer' = [timer EXCEPT ![g] = now + dur.send[g]]
    /\ pc' = [pc EXCEPT ![g] = "sleeping"]
    /\ UNCHANGED <<inputVars, heap, parVars, chanVars, lockVars, idx, reg, wg,
                   ctx, now, ret, crashed, out>>

\* The send completes with no receiver, as on a channel with a buffer: the
\* mutation of SelWake.
SelWakeBuffered(g) ==
    /\ prog \in SelectProgs
    /\ g \in 1..Producers(prog) /\ pc[g] = "sleeping"
    /\ TimerDue(g)
    /\ timer' = [timer EXCEPT ![g] = NoTimer]
    /\ pc' = [pc EXCEPT ![g] = IF pc[0] = "returned" THEN "exited" ELSE "send"]
    /\ UNCHANGED <<inputVars, heap, parVars, chanVars, lockVars, idx, reg, wg,
                   ctx, now, ret, crashed, out>>

\* time.Sleep(...) over: the goroutine comes to its send, ch <- "...", and
\* blocks there until a receiver takes the value (the channel has no buffer)
SelWake(g) ==
    /\ prog \in SelectProgs
    /\ g \in 1..Producers(prog) /\ pc[g] = "sleeping"
    /\ TimerDue(g)
    /\ timer' = [timer EXCEPT ![g] = NoTimer]
    /\ pc' = [pc EXCEPT ![g] = "send"]
    /\ UNCHANGED <<inputVars, heap, parVars, chanVars, lockVars, idx, reg, wg,
                   ctx, now, ret, crashed, out>>

\* The select is entered with no timer: the mutation of SelSelect.
SelSelectWithoutTimer ==
    /\ prog \in SelectProgs
    /\ pc[0] = "start" /\ idx = Producers(prog)
    /\ pc' = [pc EXCEPT ![0] = "blocked"]
    /\ UNCHANGED <<inputVars, heap, parVars, chanVars, lockVars, timeVars, idx,
                   reg, wg, ret, crashed, out>>

\* select { case msg := <-ch...: ... case <-time.After(...): ... } entered:
\* time.After is evaluated and its timer started, where the select has it.
SelSelect ==
    /\ prog \in SelectProgs
    /\ pc[0] = "start" /\ idx = Producers(prog)
    /\ timer' = [timer EXCEPT ![0] = IF HasTimeout(prog)
                                       THEN now + dur.timeout ELSE NoTimer]
    /\ pc' = [pc EXCEPT ![0] = "blocked"]
    /\ UNCHANGED <<inputVars, heap, parVars, chanVars, lockVars, idx, reg, wg,
                   ctx, now, ret, crashed, out>>

\* case msg := <-ch: the sender blocked on the g-th channel hands its message
\* to the select, which prints it; the function returns and the sender ends.
SelRecv(g) ==
    /\ prog \in SelectProgs
    /\ pc[0] = "blocked"
    /\ g \in 1..Producers(prog) /\ pc[g] = "send"
    /\ out' = Append(out, <<"message", g>>)
    /\ timer' = [timer EXCEPT ![0] = NoTimer]
    /\ ret' = <<"at", now>>
    /\ pc' = [pc EXCEPT ![0] = "returned", ![g] = "exited"]
    /\ UNCHANGED <<inputVars, heap, parVars, chanVars, lockVars, idx, reg, wg,
                   ctx, now, crashed>>

\* case <-time.After(...): the timeout line is printed and the function
\* returns.
SelTimeout ==
    /\ prog \in SelectProgs
    /\ pc[0] = "blocked"
    /\ TimerDue(0)
    /\ out' = Append(out, <<"timeout">>)
    /\ timer' = [timer EXCEPT ![0] = NoTimer]
    /\ ret' = <<"at", now>>
    /\ pc' = [pc EXCEPT ![0] = "returned"]
    /\ UNCHANGED <<inputVars, heap, parVars, chanVars, lockVars, idx, reg, wg,
                   ctx, now, crashed>>

NextSelectExamples ==
    \/ SelGo
    \/ \E g \in 1..2 : SelSleep(g) \/ SelWake(g) \/ SelRecv(g)
    \/ SelSelect
    \/ SelTimeout

-----------------------------------------------------------------------------
\* ---- exampleClosedChannelPanic, 07-errors/main.go.  The channel has no
\* buffer: a send completes by handing its value to a receiver that waits.
\* Goroutine 1 sends 1 and closes the channel, goroutine 2 sends 2 on the
\* closed channel.  out holds the lines printed.

\* time.Sleep(time.Second)
ClosedWait == 2

InitClosedChannelPanic ==
    InitTimed("exampleClosedChannelPanic", 2, [wait : Ticks])

\* ch := make(chan int); go func() { ch <- 1; close(ch) }()
CCPGo1 ==
    /\ prog = "exampleClosedChannelPanic"
    /\ pc[0] = "start"
    /\ pc' = [pc EXCEPT ![0] = "recv1", ![1] = "send"]
    /\ UNCHANGED <<inputVars, heap, parVars, chanVars, lockVars, timeVars, idx,
                   reg, wg, ret, crashed, out>>

\* ch <- 1 meets fmt.Println(<-ch): the value goes from the sender to the
\* receiver, which prints it.
CCPSendRecv ==
    /\ prog = "exampleClosedChannelPanic"
    /\ pc[1] = "send" /\ pc[0] = "recv1"
    /\ ~closed
    /\ reg' = [reg EXCEPT ![0] = 1]
    /\ out' = Append(out, <<1>>)
    /\ pc' = [pc EXCEPT ![0] = "recv2", ![1] = "close"]
    /\ UNCHANGED <<inputVars, heap, parVars, chanVars, lockVars, timeVars, idx,
                   wg, ret, crashed>>

\* close(ch)
CCPClose ==
    /\ prog = "exampleClosedChannelPanic"
    /\ pc[1] = "close"
    /\ ~closed
    /\ closed' = TRUE
    /\ pc' = [pc EXCEPT ![1] = "exited"]
    /\ UNCHANGED <<inputVars, heap, parVars, lockVars, timeVars, idx, reg, wg,
                   buf, ret, crashed, out>>

\* fmt.Println(<-ch), the second receive: no sender is left, so it waits for
\* the close and then yields the zero value.
CCPRecvClosed ==
    /\ prog = "exampleClosedChannelPanic"
    /\ pc[0] = "recv2"
    /\ RecvClosedReady
    /\ reg' = [reg EXCEPT ![0] = RecvClosed.value]
    /\ out' = Append(out, <<RecvClosed.value>>)
    /\ pc' = [pc EXCEPT ![0] = "go2"]
    /\ UNCHANGED <<inputVars, heap, parVars, chanVars, lockVars, timeVars, idx,
                   wg, ret, crashed>>

\* go func() { defer func() { recover ... }(); ch <- 2 }()
CCPGo2 ==
    /\ prog = "exampleClosedChannelPanic"
    /\ pc[0] = "go2"
    /\ pc' = [pc EXCEPT ![0] = "sleep", ![2] = "send"]
    /\ UNCHANGED <<inputVars, heap, parVars, chanVars, lockVars, timeVars, idx,
                   reg, wg, ret, crashed, out>>

\* The send on the closed channel goes through: the mutation of
\* CCPSendClosed.
CCPSendClosedDelivers ==
    /\ prog = "exampleClosedChannelPanic"
    /\ pc[2] = "send"
    /\ closed
    /\ buf' = Append(buf, 2)
    /\ pc' = [pc EXCEPT ![2] = "exited"]
    /\ UNCHANGED <<inputVars, heap, parVars, lockVars, timeVars, idx, reg, wg,
                   closed, ret, crashed, out>>

\* ch <- 2 on the closed channel: the send panics in the sending goroutine
\* ("send on closed channel"); the value goes nowhere.
CCPSendClosed ==
    /\ prog = "exampleClosedChannelPanic"
    /\ pc[2] = "send"
    /\ closed
    /\ pc' = [pc EXCEPT ![2] = "panicking"]
    /\ UNCHANGED <<inputVars, heap, parVars, chanVars, lockVars, timeVars, idx,
                   reg, wg, ret, crashed, out>>

\* The deferred function: recover() returns the panic value, the line is
\* printed and the goroutine ends normally.
CCPRecover ==
    /\ prog = "exampleClosedChannelPanic"
    /\ pc[2] = "panicking"
    /\ out' = Append(out, <<"Recovered from panic:", "send on closed channel">>)
    /\ pc' = [pc EXCEPT ![2] = "exited"]
    /\ UNCHANGED <<inputVars, heap, parVars, chanVars, lockVars, timeVars, idx,
                   reg, wg, ret, crashed>>

\* time.Sleep(time.Second), begun
CCPSleep ==
    /\ prog = "exampleClosedChannelPanic"
    /\ pc[0] = "sleep"
    /\ timer' = [timer EXCEPT ![0] = now + dur.wait]
    /\ pc' = [pc EXCEPT ![0] = "sleeping"]
    /\ UNCHANGED <<inputVars, heap, parVars, chanVars, lockVars, idx, reg, wg,
                   ctx, now, ret, crashed, out>>

\* time.Sleep(time.Second), over: the function returns
CCPWake ==
    /\ prog = "exampleClosedChannelPanic"
    /\ pc[0] = "sleeping"
    /\ TimerDue(0)
    /\ timer' = [timer EXCEPT ![0] = NoTimer]
    /\ pc' = [pc EXCEPT ![0] = "returned"]
    /\ UNCHANGED <<inputVars, heap, parVars, chanVars, lockVars, idx, reg, wg,
                   ctx, now, ret, crashed, out>>

NextClosedChannelPanic ==
    \/ CCPGo1
    \/ CCPSendRecv
    \/ CCPClose
    \/ CCPRecvClosed
    \/ CCPGo2
    \/ CCPSendClosed
    \/ CCPRecover
    \/ CCPSleep
    \/ CCPWake

-----------------------------------------------------------------------------
\* ---- exampleGoroutineLeak, 08-context/main.go.  closed says that the done
\* channel is closed; goroutine 1 is the worker loop.  The function is run
\* with its three durations as written and with every other choice of them.

\* The durations of the source: the worker's Sleep of 500 ms, main's Sleep
\* of 2 s before close(done) and of 1 s after it.
LeakAsWritten == [work |-> 1, wait |-> 4, grace |-> 2]

InitGoroutineLeak ==
    InitTimed("exampleGoroutineLeak", 1,
              [work : Ticks, wait : Ticks, grace : Ticks])

\* done := make(chan struct{}); go func() {...}(); time.Sleep(2s) begun
EGLGo ==
    /\ prog = "exampleGoroutineLeak"
    /\ pc[0] = "start"
    /\ timer' = [timer EXCEPT ![0] = now + dur.wait]
    /\ pc' = [pc EXCEPT ![0] = "sleeping1", ![1] = "check"]
    /\ UNCHANGED <<inputVars, heap, parVars, chanVars, lockVars, idx, reg, wg,
                   ctx, now, ret, crashed, out>>

\* time.Sleep(2s) over; close(done); time.Sleep(1s) begun
EGLClose ==
    /\ prog = "exampleGoroutineLeak"
    /\ pc[0] = "sleeping1"
    /\ TimerDue(0)
    /\ closed' = TRUE
    /\ timer' = [timer EXCEPT ![0] = now + dur.grace]
    /\ pc' = [pc EXCEPT ![0] = "sleeping2"]
    /\ UNCHANGED <<inputVars, heap, parVars, lockVars, idx, reg, wg, buf, ctx,
                   now, ret, crashed, out>>

\* time.Sleep(1s) over; the last line is printed and the function returns
EGLReturn ==
    /\ prog = "exampleGoroutineLeak"
    /\ pc[0] = "sleeping2"
    /\ TimerDue(0)
    /\ out' = Append(out, <<"main goroutine finished">>)
    /\ timer' = [timer EXCEPT ![0] = NoTimer]
    /\ pc' = [pc EXCEPT ![0] = "returned"]
    /\ UNCHANGED <<inputVars, heap, parVars, chanVars, lockVars, idx, reg, wg,
                   ctx, now, ret, crashed>>

\* select { case <-done: fmt.Println(...); return }: taken when done is
\* closed
EGLDone ==
    /\ prog = "exampleGoroutineLeak"
    /\ pc[1] = "check"
    /\ RecvClosedReady
    /\ out' = Append(out, <<"goroutine finished">>)
    /\ pc' = [pc EXCEPT ![1] = "exited"]
    /\ UNCHANGED <<inputVars, heap, parVars, chanVars, lockVars, timeVars, idx,
                   reg, wg, ret, crashed>>

\* The select takes default although done is closed: the mutation of
\* EGLDefault.
EGLDefaultWhenClosed ==
    /\ prog = "exampleGoroutineLeak"
    /\ pc[1] = "check"
    /\ timer' = [timer EXCEPT ![1] = now + dur.work]
    /\ pc' = [pc EXCEPT ![1] = "working"]
    /\ UNCHANGED <<inputVars, heap, parVars, chanVars, lockVars, idx, reg, wg,
                   ctx, now, ret, crashed, out>>

\* select { ... default: time.Sleep(500 * time.Millisecond) ... }: taken
\* when no other case is ready; the work of the iteration begins
EGLDefault ==
    /\ prog = "exampleGoroutineLeak"
    /\ pc[1] = "check"
    /\ ~RecvClosedReady
    /\ timer' = [timer EXCEPT ![1] = now + dur.work]
    /\ pc' = [pc EXCEPT ![1] = "working"]
    /\ UNCHANGED <<inputVars, heap, parVars, chanVars, lockVars, idx, reg, wg,
                   ctx, now, ret, crashed, out>>

\* The Sleep of the iteration is over: fmt.Println("..."), and the loop
\* comes back to its select
EGLWorked ==
    /\ prog = "exampleGoroutineLeak"
    /\ pc[1] = "working"
    /\ TimerDue(1)
    /\ out' = Append(out, <<"goroutine working">>)
    /\ timer' = [timer EXCEPT ![1] = NoTimer]
    /\ pc' = [pc EXCEPT ![1] = "check"]
    /\ UNCHANGED <<inputVars, heap, parVars, chanVars, lockVars, idx, reg, wg,
                   ctx, now, ret, crashed>>

NextGoroutineLeak ==
    \/ EGLGo
    \/ EGLClose
    \/ EGLReturn
    \/ EGLDone
    \/ EGLDefault
    \/ EGLWorked

-----------------------------------------------------------------------------
(* The timed examples. *)

InitTime ==
    \/ InitContextUsage
    \/ InitContextPassing
    \/ InitProcessWithTimeout
    \/ InitGoroutinePanic
    \/ InitSelectExamples
    \/ InitClosedChannelPanic
    \/ InitGoroutineLeak

\* A step of a goroutine or of a timer.
StepTime ==
    \/ CtxDeadline
    \/ NextContextUsage
    \/ NextContextPassing
    \/ NextProcessWithTimeout
    \/ NextGoroutinePanic
    \/ NextSelectExamples
    \/ NextClosedChannelPanic
    \/ NextGoroutineLeak

\* Some timer is still to fire.
TimerPending ==
    \/ \E g \in DOMAIN timer : timer[g] # NoTimer /\ timer[g] > now
    \/ ~ctx.done /\ ctx.deadline # NoTimer /\ ctx.deadline > now

\* Time passes: one tick, once no goroutine and no timer has a step to take.
Tick ==
    /\ ~ENABLED StepTime
    /\ TimerPending
    /\ now' = now + 1
    /\ UNCHANGED <<inputVars, heap, parVars, chanVars, lockVars, pc, idx, reg,
                   wg, ctx, timer, ret, crashed, out>>

NextTime == StepTime \/ Tick

SpecTime == InitTime /\ [][NextTime]_vars

\* The scheduler runs every runnable goroutine and the clock does not stop.
SpecTimeFair == SpecTime /\ WF_vars(NextTime)

\* The lines printed so far.
Printed == {out[k] : k \in 1..Len(out)}

\* C8: the cancel() of exampleContextPassing releases every goroutine that
\* waits on ctx.Done(): once the context is cancelled both goroutines are
\* eventually past their select, and neither is past it before the
\* cancellation.
C8_CancelReleasesAll ==
    /\ [](prog = "exampleContextPassing" =>
            \A g \in {1, 2} : pc[g] = "exited" => ctx.done)
    /\ (prog = "exampleContextPassing" /\ ctx.done)
          ~> (prog = "exampleContextPassing" /\ pc[1] = "exited"
                /\ pc[2] = "exited")

\* Both goroutines stood blocked on Done, the context was cancelled, and
\* both have printed, while the caller still sleeps after its cancel().
C8_Witness ==
    /\ prog = "exampleContextPassing" /\ dur = PassingAsWritten
    /\ ctx.done /\ pc[0] = "sleeping2"
    /\ pc[1] = "exited" /\ pc[2] = "exited"
    /\ Printed = {<<"goroutine", 1, "context cancelled">>,
                  <<"goroutine", 2, "context cancelled">>}

\* A call of cancel() by the calling goroutine.
CancelCall == pc[0] \in {"cancel", "deferred"} /\ pc'[0] # pc[0]

\* C9: a cancelled context stays cancelled, with the error of its first
\* cancellation, and a cancel() on a cancelled context (the deferred one
\* after the explicit one, or after the deadline fired) changes nothing
\* but the caller's own position: no goroutine moves, nothing is printed.
C9_CancelIsIdempotent ==
    [][/\ ctx.done => ctx' = ctx
       /\ (ctx.done /\ CancelCall) =>
             /\ out' = out
             /\ \A g \in DOMAIN pc \ {0} : pc'[g] = pc[g]]_vars

\* exampleContextUsage as written has returned: its deferred cancel() came
\* after the deadline had cancelled the context.
C9_Witness ==
    /\ prog = "exampleContextUsage" /\ dur = UsageAsWritten
    /\ pc[0] = "returned"
    /\ ctx.done /\ ctx.err = "DeadlineExceeded"

DeadlineProgs == {"exampleContextUsage", "processWithTimeout"}

\* The moment the context is cancelled: the deadline or the caller's
\* cancel() (after dur.wait), whichever comes first.
CancelMoment == IF dur.timeout < dur.wait THEN dur.timeout ELSE dur.wait

CompletedLine ==
    IF prog = "exampleContextUsage"
      THEN <<"work completed">> ELSE <<"Process completed">>

CancelledLine ==
    IF prog = "exampleContextUsage"
      THEN <<"context cancelled", ctx.err>> ELSE <<"Process cancelled">>

\* C10: a context with a deadline is cancelled at the deadline, with
\* DeadlineExceeded, when the caller's cancel() has not come before, and at
\* that cancel(), with Canceled, when it comes first; a worker whose work
\* takes longer than that moment takes the ctx.Done branch and never the
\* work-completed branch (exampleContextUsage and processWithTimeout, as
\* written and with every other choice of the three durations).
C10_DeadlineCancels ==
    prog \in DeadlineProgs =>
        /\ ctx.done => now >= CancelMoment
        /\ now > CancelMoment => ctx.done
        /\ (ctx.done /\ dur.timeout < dur.wait) => ctx.err = "DeadlineExceeded"
        /\ (ctx.done /\ dur.wait < dur.timeout) => ctx.err = "Canceled"
        /\ dur.work > CancelMoment =>
              /\ CompletedLine \notin Printed
              /\ pc[1] \in {"deferred", "exited"} => CancelledLine \in Printed

\* main's call of processWithTimeout as written has returned: the cancel()
\* at 0.5 s came before the deadline of 1 s and the worker, whose work
\* takes 2 s, printed that it was cancelled.
C10_Witness ==
    /\ prog = "processWithTimeout" /\ dur = ProcessAsWritten
    /\ pc[0] = "returned" /\ pc[1] = "exited"
    /\ ctx.err = "Canceled" /\ now = MainWait
    /\ out = <<<<"Process cancelled">>>>


\* Goroutine g of a select example is the one whose Sleep is over first, and
\* before the timeout where the select has one.
SendsFirst(g) ==
    /\ \A h \in 1..Producers(prog) : h # g => dur.send[g] < dur.send[h]
    /\ HasTimeout(prog) => dur.send[g] < dur.timeout

\* Every sending goroutine of a select example sleeps longer than the
\* timeout of the select.
AllSendLate ==
    /\ HasTimeout(prog)
    /\ \A g \in 1..Producers(prog) : dur.send[g] > dur.timeout

\* C11: a select with a timeout proceeds with the earliest event.  When
\* every sender needs longer than the timeout, the function has printed the
\* timeout line and no message and has returned at the timeout, before any
\* sender was ready; when one sender is ready before the others and before
\* the timeout, the function has printed that sender's message and nothing
\* else and has returned at that moment.
C11_EarliestEventWins ==
    (prog \in SelectProgs /\ pc[0] = "returned") =>
        /\ AllSendLate =>
              /\ out = << <<"timeout">> >>
              /\ ret = <<"at", dur.timeout>>
              /\ \A g \in 1..Producers(prog) : ret[2] < dur.send[g]
        /\ \A g \in 1..Producers(prog) :
              SendsFirst(g) =>
                  out = << <<"message", g>> >> /\ ret = <<"at", dur.send[g]>>

\* exampleTimeout, run with the durations of the source (the sender ready
\* after 3 s, the timeout after 2 s), has returned on the timeout branch.
C11_Witness ==
    /\ prog = "exampleTimeout" /\ dur = SelectAsWritten(prog)
    /\ pc[0] = "returned" /\ out = << <<"timeout">> >> /\ ret = <<"at", 4>>

\* exampleMultipleChannelsWithTimeout, run with the durations of the source,
\* has returned with the message of the first channel after 1 s.
C11_WitnessMessage ==
    /\ prog = "exampleMultipleChannelsWithTimeout"
    /\ dur = SelectAsWritten(prog)
    /\ pc[0] = "returned" /\ out = << <<"message", 1>> >> /\ ret = <<"at", 2>>


\* The line the deferred function of the second goroutine prints.
RecoveredLine == <<"Recovered from panic:", "send on closed channel">>

\* C14: the send on the closed channel is rejected.  In
\* exampleClosedChannelPanic the value 2 never reaches the channel or a
\* receiver; the failure is a panic of the sending goroutine, which its
\* deferred recover ends, so the process never dies of it; and the function
\* returns after the two values received and the recovery line were printed.
C14_SendOnClosedRejected ==
    prog = "exampleClosedChannelPanic" =>
        /\ ~crashed
        /\ buf = <<>> /\ reg[0] # 2
        /\ \A k \in 1..Len(out) : out[k] # <<2>>
        /\ pc[2] = "exited" => RecoveredLine \in Printed
        /\ pc[0] = "returned" =>
              /\ pc[2] = "exited"
              /\ out = << <<1>>, <<RecvClosed.value>>, RecoveredLine >>

\* exampleClosedChannelPanic, run with the Sleep of the source, has returned
\* after the second goroutine panicked on its send and recovered.
C14_Witness ==
    /\ prog = "exampleClosedChannelPanic" /\ dur.wait = ClosedWait
    /\ pc[0] = "returned" /\ pc[2] = "exited" /\ closed
    /\ RecoveredLine \in Printed


\* C15: once the goroutines of TestCache_ConcurrentAccess have all finished
\* (wg.Wait returned), Get returns ("value", true) for the key of every one
\* of them, so no key is reported and the test passes: no Set is lost in any
\* interleaving.
C15_NoSetLost ==
    (prog = "TestCache_ConcurrentAccess" /\ pc[0] \in {"check", "returned"}) =>
        /\ \A n \in 0..(NumGoroutines - 1) :
              CacheGet(KeyOf(n)) = [val |-> "value", ok |-> TRUE]
        /\ results = <<>>
        /\ pc[0] = "returned" => ret = <<"PASS">>

\* The test has returned after a run in which the last goroutine started
\* was the first to set its key, all keys being in the map.
C15_Witness ==
    /\ prog = "TestCache_ConcurrentAccess" /\ pc[0] = "returned"
    /\ ret = <<"PASS">>
    /\ DOMAIN heap.items = {KeyOf(n) : n \in 0..(NumGoroutines - 1)}
    /\ DOMAIN reg[NumGoroutines] = {}


\* C16: whatever the number and the interleaving of the calls of GetDatabase
\* (or GetDBConnection), the function given to once.Do runs at most once and
\* has run exactly once before any call returns; every call returns the one
\* initialised value, never the nil pointer or the empty string, and gof.md's
\* main prints true.
C16_InitialisedExactlyOnce ==
    prog \in OnceProgs =>
        /\ heap.inits <= 1
        /\ \A g \in DOMAIN pc : \A k \in 1..Len(reg[g]) :
              /\ heap.inits = 1
              /\ reg[g][k] = NewInstance(prog, 1)
              /\ reg[g][k] # ZeroInstance(prog)
        /\ pc[0] = "returned" => out = << <<TRUE>> >>

\* All calls of GetDatabase have returned, the function given to Do having
\* run in one of the concurrent callers while the others waited for it.
C16_Witness ==
    /\ prog = "GetDatabase"
    /\ pc[0] = "returned"
    /\ \A g \in DOMAIN pc \ {0} : pc[g] = "exited"
    /\ reg[0] = <<NewInstance(prog, 1), NewInstance(prog, 1)>>
    /\ heap.inits = 1


\* The goroutines of the first loop of exampleDataRace that have written the
\* counter.
RacyWritten ==
    {g \in 1..NumGoroutines : pc[g] \in {"racyDeferred", "exited"}}

\* C17: the unsynchronised counter++ of exampleDataRace (08-sync) loses
\* updates but invents none: while the first loop's goroutines run, the
\* counter is at most the number of writes made and at least 1 once a write
\* was made, so the value printed after wg.Wait lies in 1..N; the witness
\* shows that a value below N is printed in some run.
C17_RacyCounterBounds ==
    prog = "sync.exampleDataRace" =>
        /\ pc[0] = "loop" =>
              /\ counter <= Cardinality(RacyWritten)
              /\ RacyWritten # {} => counter >= 1
        /\ Len(out) >= 1 =>
              /\ out[1][1] = "Counter with data race:"
              /\ out[1][2] \in 1..NumGoroutines

\* All goroutines of the first loop have finished and the counter printed is
\* 1, less than their number: every goroutine read 0 before any wrote.
C17_Witness ==
    /\ prog = "sync.exampleDataRace"
    /\ Len(out) >= 1
    /\ \A g \in 1..NumGoroutines : pc[g] = "exited" /\ reg[g] = 0
    /\ out[1] = <<"Counter with data race:", 1>>
    /\ 1 < NumGoroutines


InitChan == InitProcessBatch \/ InitClosedChannelPanic

NextChan == NextProcessBatch \/ NextClosedChannelPanic \/ Tick

SpecChanFair == InitChan /\ [][NextChan]_vars /\ WF_vars(NextChan)

\* C20: a receive on a closed channel that holds no value neither blocks nor
\* panics and yields the zero value.  In exampleClosedChannelPanic the two
\* receives of main print 1 and then 0, the process does not die and main
\* comes to its return; in TestProcessBatch the range loop ends once
\* ProcessBatch has closed the channel, after it received every value sent.
C20_ClosedReceiveEndsWait ==
    /\ [](prog = "exampleClosedChannelPanic" =>
            /\ ~crashed
            /\ pc[0] \notin {"start", "recv1"} => out[1] = <<1>>
            /\ pc[0] \notin {"start", "recv1", "recv2"} => out[2] = <<0>>)
    /\ (prog = "exampleClosedChannelPanic")
           ~> (prog = "exampleClosedChannelPanic" /\ pc[0] = "returned")
    /\ (prog = "ProcessBatch" /\ closed)
           ~> (prog = "ProcessBatch" /\ pc[0] = "returned"
                 /\ Len(results) = Len(slice) /\ buf = <<>>)

\* main of exampleClosedChannelPanic has made its second receive, on the
\* closed channel, and received 0.
C20_Witness ==
    /\ prog = "exampleClosedChannelPanic"
    /\ pc[0] = "go2" /\ closed /\ buf = <<>>
    /\ reg[0] = 0 /\ out = << <<1>>, <<0>> >>

\* The range loop of TestProcessBatch has ended on the closed channel after
\* three values.
C20_WitnessRange ==
    /\ prog = "ProcessBatch" /\ pc[0] = "returned" /\ closed
    /\ Len(results) = 3

-----------------------------------------------------------------------------
(* Functions that run in the calling goroutine alone. *)

\* The largest absolute value of an integer argument.
MaxAbs == 4

Ints == (0 - MaxAbs)..MaxAbs

\* The absolute value.
Abs(x) == IF x < 0 THEN 0 - x ELSE x

\* a / b of Go for b # 0: the quotient truncated toward zero.
GoQuo(a, b) ==
    IF (a < 0) = (b < 0) THEN Abs(a) \div Abs(b) ELSE 0 - (Abs(a) \div Abs(b))

\* ---- safeDivide(a, b), 07-select/main.go.  heap holds the parameters and
\* the named results, result and err; ret is what the caller receives.

InitSafeDivide ==
    /\ prog = "safeDivide"
    /\ slice = <<>>
    /\ workerFn = "none"
    /\ capacity = 0
    /\ dur = NoDurations
    /\ pc = [g \in {0} |-> "start"]
    /\ reg = [g \in {0} |-> 0]
    /\ idx = 0
    /\ wg = 0
    /\ ret = NoValue
    /\ crashed = FALSE
    /\ out = <<>>
    /\ \E a \in Ints, b \in Ints :
          heap = [a |-> a, b |-> b, result |-> 0, err |-> "nil"]
    /\ NoFanOut /\ NoChannel /\ NoLock /\ NoClock

\* if b == 0 { panic("division by zero") }; return a / b, nil: the panic
\* starts the unwinding, the return statement sets the named results.
SDBody ==
    /\ prog = "safeDivide"
    /\ pc[0] = "start"
    /\ IF heap.b = 0
         THEN /\ pc' = [pc EXCEPT ![0] = "panicking"]
              /\ heap' = heap
         ELSE /\ pc' = [pc EXCEPT ![0] = "deferred"]
              /\ heap' = [heap EXCEPT !.result = GoQuo(heap.a, heap.b),
                                      !.err = "nil"]
    /\ UNCHANGED <<inputVars, parVars, chanVars, lockVars, timeVars, idx, reg,
                   wg, ret, crashed, out>>

\* The deferred function recovers and leaves err as it is: the mutation of
\* SDDeferred.
SDDeferredKeepsErr ==
    /\ prog = "safeDivide"
    /\ pc[0] \in {"panicking", "deferred"}
    /\ out' = IF pc[0] = "panicking"
                THEN Append(out, <<"Recovered from panic:", "division by zero">>)
                ELSE out
    /\ ret' = <<heap.result, heap.err>>
    /\ pc' = [pc EXCEPT ![0] = "returned"]
    /\ UNCHANGED <<inputVars, heap, parVars, chanVars, lockVars, timeVars, idx,
                   reg, wg, crashed>>

\* defer func() { if r := recover(); r != nil { fmt.Println(...);
\* err = fmt.Errorf("error: %v", r) } }(): recover returns the panic value
\* while the function panics, and nil otherwise; the function then returns
\* its named results to the caller.
SDDeferred ==
    /\ prog = "safeDivide"
    /\ pc[0] \in {"panicking", "deferred"}
    /\ IF pc[0] = "panicking"
         THEN /\ out' = Append(out, <<"Recovered from panic:", "division by zero">>)
              /\ heap' = [heap EXCEPT !.err = "error: division by zero"]
         ELSE /\ out' = out
              /\ heap' = heap
    /\ ret' = <<heap'.result, heap'.err>>
    /\ pc' = [pc EXCEPT ![0] = "returned"]
    /\ UNCHANGED <<inputVars, parVars, chanVars, lockVars, timeVars, idx, reg,
                   wg, crashed>>

NextSafeDivide == SDBody \/ SDDeferred

\* A function called from one goroutine: the caller is goroutine 0 and no
\* channel, lock, clock or fan-out exists.  The objects are given by the
\* function's own Init.
InitAlone(name) ==
    /\ prog = name
    /\ slice = <<>>
    /\ workerFn = "none"
    /\ capacity = 0
    /\ dur = NoDurations
    /\ pc = [g \in {0} |-> "start"]
    /\ reg = [g \in {0} |-> 0]
    /\ idx = 0
    /\ wg = 0
    /\ ret = NoValue
    /\ crashed = FALSE
    /\ out = <<>>
    /\ NoFanOut /\ NoChannel /\ NoLock /\ NoClock

\* How many times in a row the caller calls a method of one object.
MaxCalls == 3

\* The caller calls the method once more on the same object: idx counts the
\* calls made before this one.
CallAgain(progs) ==
    /\ prog \in progs
    /\ pc[0] = "returned" /\ idx + 1 < MaxCalls
    /\ idx' = idx + 1
    /\ ret' = NoValue
    /\ pc' = [pc EXCEPT ![0] = "start"]

\* ---- Order.Cancel and OrderService.CancelOrder, unnamed/part_000.
\* heap.status is o.Status (order.Status in CancelOrder), heap.before its
\* value when the call began, heap.got whether GetByID gave an order,
\* heap.saved whether repo.Save was called in this call and heap.saveErr
\* what it returned.

OrderProgs == {"Order.Cancel", "OrderService.CancelOrder"}

\* The values of OrderStatus: the source names Shipped and Cancelled, the
\* other two stand for the statuses it does not name.
OrderStatuses == {"New", "Paid", "Shipped", "Cancelled"}

\* The errors of the repository, which the source leaves to the interface.
RepoErrors == {"nil", "repo: failed"}

InitOrder ==
    /\ InitAlone("Order.Cancel") \/ InitAlone("OrderService.CancelOrder")
    /\ \E st \in OrderStatuses :
          heap = [status |-> st, before |-> st, got |-> prog = "Order.Cancel",
                  saved |-> FALSE, saveErr |-> "nil"]

\* Cancel sets the status whatever it was: the mutation of OrderCancel.
OrderCancelAlways ==
    /\ prog = "Order.Cancel"
    /\ pc[0] = "start"
    /\ heap' = [heap EXCEPT !.status = "Cancelled"]
    /\ ret' = <<"nil">>
    /\ pc' = [pc EXCEPT ![0] = "returned"]
    /\ UNCHANGED <<inputVars, parVars, chanVars, lockVars, timeVars, idx, reg,
                   wg, crashed, out>>

\* func (o *Order) Cancel() error
OrderCancel ==
    /\ prog = "Order.Cancel"
    /\ pc[0] = "start"
    /\ IF heap.status = "Shipped"
         THEN /\ ret' = <<"cannot cancel shipped order">>
              /\ heap' = heap
         ELSE /\ heap' = [heap EXCEPT !.status = "Cancelled"]
              /\ ret' = <<"nil">>
    /\ pc' = [pc EXCEPT ![0] = "returned"]
    /\ UNCHANGED <<inputVars, parVars, chanVars, lockVars, timeVars, idx, reg,
                   wg, crashed, out>>

\* order, err := s.repo.GetByID(orderID); if err != nil { return err }
CancelOrderGet ==
    /\ prog = "OrderService.CancelOrder"
    /\ pc[0] = "start"
    /\ \E err \in RepoErrors :
          IF err # "nil"
            THEN /\ heap' = [heap EXCEPT !.got = FALSE]
                 /\ ret' = <<err>>
                 /\ pc' = [pc EXCEPT ![0] = "returned"]
            ELSE /\ heap' = [heap EXCEPT !.got = TRUE]
                 /\ ret' = ret
                 /\ pc' = [pc EXCEPT ![0] = "check"]
    /\ UNCHANGED <<inputVars, parVars, chanVars, lockVars, timeVars, idx, reg,
                   wg, crashed, out>>

\* if order.Status == Shipped { return errors.New(...) };
\* order.Status = Cancelled
CancelOrderCheck ==
    /\ prog = "OrderService.CancelOrder"
    /\ pc[0] = "check"
    /\ IF heap.status = "Shipped"
         THEN /\ ret' = <<"cannot cancel shipped order">>
              /\ heap' = heap
              /\ pc' = [pc EXCEPT ![0] = "returned"]
         ELSE /\ heap' = [heap EXCEPT !.status = "Cancelled"]
              /\ ret' = ret
              /\ pc' = [pc EXCEPT ![0] = "save"]
    /\ UNCHANGED <<inputVars, parVars, chanVars, lockVars, timeVars, idx, reg,
                   wg, crashed, out>>

\* return s.repo.Save(order)
CancelOrderSave ==
    /\ prog = "OrderService.CancelOrder"
    /\ pc[0] = "save"
    /\ \E err \in RepoErrors :
          /\ heap' = [heap EXCEPT !.saved = TRUE, !.saveErr = err]
          /\ ret' = <<err>>
    /\ pc' = [pc EXCEPT ![0] = "returned"]
    /\ UNCHANGED <<inputVars, parVars, chanVars, lockVars, timeVars, idx, reg,
                   wg, crashed, out>>

\* The next call on the same order starts from the status the last one left.
OrderAgain ==
    /\ CallAgain(OrderProgs)
    /\ heap' = [heap EXCEPT !.before = heap.status,
                            !.got = prog = "Order.Cancel",
                            !.saved = FALSE, !.saveErr = "nil"]
    /\ UNCHANGED <<inputVars, parVars, chanVars, lockVars, timeVars, reg, wg,
                   crashed, out>>

NextOrder ==
    \/ OrderCancel
    \/ CancelOrderGet
    \/ CancelOrderCheck
    \/ CancelOrderSave
    \/ OrderAgain

\* ---- UnitOfWork.Commit, unnamed/part_000.  heap.newObjects[i] is what
\* mapper.Insert returns for the i-th registered object (TRUE: nil, FALSE:
\* an error), heap.inserts the objects Insert was called on, in order,
\* heap.commits and heap.rollbacks the calls of tx.Commit and tx.Rollback.

\* All sequences of at most n booleans.
Outcomes(n) == UNION {[1..k -> BOOLEAN] : k \in 0..n}

\* The error of mapper.Insert for the i-th object.
InsertError(i) == <<"insert failed", i>>

\* The errors tx.Commit may return.
CommitErrors == {"nil", "commit: failed"}

InitUnitOfWork ==
    /\ InitAlone("UnitOfWork.Commit")
    /\ \E objs \in Outcomes(MaxLen) :
          heap = [newObjects |-> objs, tx |-> "none", inserts |-> <<>>,
                  commits |-> 0, rollbacks |-> 0]

\* tx := db.Begin()
UOWBegin ==
    /\ prog = "UnitOfWork.Commit"
    /\ pc[0] = "start"
    /\ heap' = [heap EXCEPT !.tx = "open"]
    /\ pc' = [pc EXCEPT ![0] = "loop"]
    /\ UNCHANGED <<inputVars, parVars, chanVars, lockVars, timeVars, idx, reg,
                   wg, ret, crashed, out>>

\* The loop goes on after a failed insert: the mutation of UOWInsert.
UOWInsertIgnoresError ==
    /\ prog = "UnitOfWork.Commit"
    /\ pc[0] = "loop" /\ idx < Len(heap.newObjects)
    /\ heap' = [heap EXCEPT !.inserts = Append(@, idx + 1)]
    /\ idx' = idx + 1
    /\ UNCHANGED <<inputVars, parVars, chanVars, lockVars, timeVars, pc, reg,
                   wg, ret, crashed, out>>

\* for _, obj := range uow.newObjects {
\*     if err := mapper.Insert(tx, obj); err != nil { ... } }
UOWInsert ==
    /\ prog = "UnitOfWork.Commit"
    /\ pc[0] = "loop" /\ idx < Len(heap.newObjects)
    /\ heap' = [heap EXCEPT !.inserts = Append(@, idx + 1)]
    /\ idx' = idx + 1
    /\ pc' = IF heap.newObjects[idx + 1] THEN pc
                                         ELSE [pc EXCEPT ![0] = "rollback"]
    /\ UNCHANGED <<inputVars, parVars, chanVars, lockVars, timeVars, reg, wg,
                   ret, crashed, out>>

\* tx.Rollback(); return err
UOWRollback ==
    /\ prog = "UnitOfWork.Commit"
    /\ pc[0] = "rollback"
    /\ heap' = [heap EXCEPT !.tx = "rolled back", !.rollbacks = @ + 1]
    /\ ret' = InsertError(idx)
    /\ pc' = [pc EXCEPT ![0] = "returned"]
    /\ UNCHANGED <<inputVars, parVars, chanVars, lockVars, timeVars, idx, reg,
                   wg, crashed, out>>

\* return tx.Commit(), after the last object
UOWCommit ==
    /\ prog = "UnitOfWork.Commit"
    /\ pc[0] = "loop" /\ idx = Len(heap.newObjects)
    /\ \E err \in CommitErrors :
          /\ heap' = [heap EXCEPT !.tx = IF err = "nil" THEN "committed"
                                                        ELSE "commit failed",
                                  !.commits = @ + 1]
          /\ ret' = <<err>>
    /\ pc' = [pc EXCEPT ![0] = "returned"]
    /\ UNCHANGED <<inputVars, parVars, chanVars, lockVars, timeVars, idx, reg,
                   wg, crashed, out>>

NextUnitOfWork ==
    \/ UOWBegin
    \/ UOWInsert
    \/ UOWRollback
    \/ UOWCommit

\* ---- LazyCustomer.Get, unnamed/part_000.  A *Customer is 0 (nil) or the
\* number of the loader call that made it.  heap.customer is lc.customer,
\* heap.loads the calls of the loader, heap.okLoads those that returned a nil
\* error, heap.first the customer of the first of these, heap.loading
\* whether this call of Get invoked the loader.

\* What the loader may return: a customer or nil, with or without an error.
LoaderResults == [customer : BOOLEAN, err : {"nil", "load: failed"}]

InitLazyCustomer ==
    /\ InitAlone("LazyCustomer.Get")
    /\ heap = [customer |-> 0, loads |-> 0, okLoads |-> 0, first |-> 0,
               loading |-> FALSE]

\* if lc.customer == nil { ... }; return lc.customer, nil
LCGet ==
    /\ prog = "LazyCustomer.Get"
    /\ pc[0] = "start"
    /\ IF heap.customer = 0
         THEN /\ pc' = [pc EXCEPT ![0] = "load"]
              /\ ret' = ret
         ELSE /\ pc' = [pc EXCEPT ![0] = "returned"]
              /\ ret' = <<heap.customer, "nil">>
    /\ UNCHANGED <<inputVars, heap, parVars, chanVars, lockVars, timeVars, idx,
                   reg, wg, crashed, out>>

\* customer, err := lc.loader(); if err != nil { return nil, err };
\* lc.customer = customer; return lc.customer, nil
LCLoad ==
    /\ prog = "LazyCustomer.Get"
    /\ pc[0] = "load"
    /\ \E r \in LoaderResults :
          LET customer == IF r.customer THEN heap.loads + 1 ELSE 0
          IN  IF r.err # "nil"
                THEN /\ heap' = [heap EXCEPT !.loads = @ + 1, !.loading = TRUE]
                     /\ ret' = <<0, r.err>>
                ELSE /\ heap' = [heap EXCEPT
                                   !.loads = @ + 1, !.loading = TRUE,
                                   !.okLoads = @ + 1,
                                   !.first = IF heap.okLoads = 0 THEN customer
                                                                 ELSE @,
                                   !.customer = customer]
                     /\ ret' = <<customer, "nil">>
    /\ pc' = [pc EXCEPT ![0] = "returned"]
    /\ UNCHANGED <<inputVars, parVars, chanVars, lockVars, timeVars, idx, reg,
                   wg, crashed, out>>

\* The next Get on the same LazyCustomer.
LCAgain ==
    /\ CallAgain({"LazyCustomer.Get"})
    /\ heap' = [heap EXCEPT !.loading = FALSE]
    /\ UNCHANGED <<inputVars, parVars, chanVars, lockVars, timeVars, reg, wg,
                   crashed, out>>

NextLazyCustomer == LCGet \/ LCLoad \/ LCAgain

\* ---- retry(fn, retries), 05-how-to-use/main.go.  heap.retries is the
\* parameter, heap.i the loop variable, heap.calls what fn returned call by
\* call, heap.sleeps the time.Sleep(time.Second) calls made.

\* The largest number of retries asked for.
MaxRetries == 3

\* What fn may return: main's fn fails at random.
FnErrors == {"nil", "random failure"}

InitRetry ==
    /\ InitAlone("retry")
    /\ \E n \in (0 - 1)..MaxRetries :
          heap = [retries |-> n, i |-> 0, calls |-> <<>>, sleeps |-> 0]

\* The loop runs once more than asked: the mutation of RetryCall.
RetryCallOnceMore ==
    /\ prog = "retry"
    /\ pc[0] = "start" /\ heap.i <= heap.retries
    /\ \E err \in FnErrors :
          /\ heap' = [heap EXCEPT !.calls = Append(@, err)]
          /\ IF err = "nil"
               THEN /\ ret' = <<"nil">>
                    /\ pc' = [pc EXCEPT ![0] = "returned"]
               ELSE /\ ret' = ret
                    /\ pc' = [pc EXCEPT ![0] = "sleep"]
    /\ UNCHANGED <<inputVars, parVars, chanVars, lockVars, timeVars, idx, reg,
                   wg, crashed, out>>

\* for i := 0; i < retries; i++ { if err := fn(); err == nil { return nil }
RetryCall ==
    /\ prog = "retry"
    /\ pc[0] = "start" /\ heap.i < heap.retries
    /\ \E err \in FnErrors :
          /\ heap' = [heap EXCEPT !.calls = Append(@, err)]
          /\ IF err = "nil"
               THEN /\ ret' = <<"nil">>
                    /\ pc' = [pc EXCEPT ![0] = "returned"]
               ELSE /\ ret' = ret
                    /\ pc' = [pc EXCEPT ![0] = "sleep"]
    /\ UNCHANGED <<inputVars, parVars, chanVars, lockVars, timeVars, idx, reg,
                   wg, crashed, out>>

\* time.Sleep(time.Second) } and i++
RetrySleep ==
    /\ prog = "retry"
    /\ pc[0] = "sleep"
    /\ heap' = [heap EXCEPT !.sleeps = @ + 1, !.i = @ + 1]
    /\ pc' = [pc EXCEPT ![0] = "start"]
    /\ UNCHANGED <<inputVars, parVars, chanVars, lockVars, timeVars, idx, reg,
                   wg, ret, crashed, out>>

\* return errors.New("operation failed after retries"), after the loop
RetryFailed ==
    /\ prog = "retry"
    /\ pc[0] = "start" /\ ~(heap.i < heap.retries)
    /\ ret' = <<"operation failed after retries">>
    /\ pc' = [pc EXCEPT ![0] = "returned"]
    /\ UNCHANGED <<inputVars, heap, parVars, chanVars, lockVars, timeVars, idx,
                   reg, wg, crashed, out>>

NextRetry == RetryCall \/ RetrySleep \/ RetryFailed

\* ---- throttle(fn, duration) and main's loop over the function it returns,
\* 05-how-to-use/main.go.  Times are in units of 100 ms.  heap.duration is
\* the parameter, heap.gap the sleep between two calls, heap.now the time
\* since the first call, heap.lastCall the captured variable, heap.calls the
\* times of the calls of the returned function and heap.runs the times at
\* which it called fn.  A call takes no time; time passes in time.Sleep.

\* The largest duration and the largest sleep between calls.
MaxWindow == 10

MaxGap == 3

\* for i := 0; i < 5; i++
ThrottleCalls == 5

\* throttle(..., time.Second) and time.Sleep(300 * time.Millisecond)
ThrottleAsWritten == [duration |-> 10, gap |-> 3]

\* var lastCall time.Time: the zero Time, which no call happens at.
ZeroTime == 0 - 1

\* time.Since(lastCall) > duration: since the zero Time the result is the
\* largest Duration (about 292 years), more than every duration used here.
SinceLastCallExceeds(d) ==
    heap.lastCall = ZeroTime \/ heap.now - heap.lastCall > d

InitThrottle ==
    /\ InitAlone("throttle")
    /\ \E d \in 0..MaxWindow, gap \in 1..MaxGap :
          heap = [duration |-> d, gap |-> gap, now |-> 0,
                  lastCall |-> ZeroTime, calls |-> <<>>, runs |-> <<>>]

\* A suppressed call moves lastCall too: the mutation of ThrottledCall.
ThrottledCallAlwaysMoves ==
    /\ prog = "throttle"
    /\ pc[0] = "start" /\ idx < ThrottleCalls
    /\ IF SinceLastCallExceeds(heap.duration)
         THEN /\ heap' = [heap EXCEPT !.lastCall = heap.now,
                                      !.calls = Append(@, heap.now),
                                      !.runs = Append(@, heap.now)]
              /\ out' = Append(out, <<"Throttled function executed">>)
         ELSE /\ heap' = [heap EXCEPT !.lastCall = heap.now,
                                      !.calls = Append(@, heap.now)]
              /\ out' = out
    /\ pc' = [pc EXCEPT ![0] = "sleep"]
    /\ UNCHANGED <<inputVars, parVars, chanVars, lockVars, timeVars, idx, reg,
                   wg, ret, crashed>>

\* throttledFunc(): if time.Since(lastCall) > duration {
\*     lastCall = time.Now(); fn() }
ThrottledCall ==
    /\ prog = "throttle"
    /\ pc[0] = "start" /\ idx < ThrottleCalls
    /\ IF SinceLastCallExceeds(heap.duration)
         THEN /\ heap' = [heap EXCEPT !.lastCall = heap.now,
                                      !.calls = Append(@, heap.now),
                                      !.runs = Append(@, heap.now)]
              /\ out' = Append(out, <<"Throttled function executed">>)
         ELSE /\ heap' = [heap EXCEPT !.calls = Append(@, heap.now)]
              /\ out' = out
    /\ pc' = [pc EXCEPT ![0] = "sleep"]
    /\ UNCHANGED <<inputVars, parVars, chanVars, lockVars, timeVars, idx, reg,
                   wg, ret, crashed>>

\* time.Sleep(300 * time.Millisecond) and i++
ThrottleSleep ==
    /\ prog = "throttle"
    /\ pc[0] = "sleep"
    /\ heap' = [heap EXCEPT !.now = @ + heap.gap]
    /\ idx' = idx + 1
    /\ pc' = [pc EXCEPT ![0] = "start"]
    /\ UNCHANGED <<inputVars, parVars, chanVars, lockVars, timeVars, reg, wg,
                   ret, crashed, out>>

\* The loop has made its five calls.
ThrottleDone ==
    /\ prog = "throttle"
    /\ pc[0] = "start" /\ idx = ThrottleCalls
    /\ pc' = [pc EXCEPT ![0] = "returned"]
    /\ UNCHANGED <<inputVars, heap, parVars, chanVars, lockVars, timeVars, idx,
                   reg, wg, ret, crashed, out>>

NextThrottle == ThrottledCall \/ ThrottleSleep \/ ThrottleDone

-----------------------------------------------------------------------------
(* The functions of one goroutine. *)

InitSeq ==
    InitSafeDivide \/ InitOrder \/ InitUnitOfWork \/ InitLazyCustomer
    \/ InitRetry \/ InitThrottle

NextSeq ==
    NextSafeDivide \/ NextOrder \/ NextUnitOfWork \/ NextLazyCustomer
    \/ NextRetry \/ NextThrottle

SpecSeq == InitSeq /\ [][NextSeq]_vars

\* C18: safeDivide(a, b) returns the quotient of a by b (the q with
\* a = q * b + r, r smaller than b in absolute value and of the sign of a)
\* and a nil error when b # 0, and 0 with a non-nil error when b = 0; the
\* panic does not leave safeDivide.
C18_SafeDivideRecovers ==
    prog = "safeDivide" =>
        /\ ~crashed
        /\ pc[0] = "returned" =>
              IF heap.b # 0
                THEN /\ ret[2] = "nil"
                     /\ Abs(heap.a - ret[1] * heap.b) < Abs(heap.b)
                     /\ (heap.a - ret[1] * heap.b) * heap.a >= 0
                     /\ out = <<>>
                ELSE /\ ret[1] = 0
                     /\ ret[2] # "nil"

\* safeDivide(a, 0) has returned 0 and an error after recovering.
C18_Witness ==
    /\ prog = "safeDivide" /\ pc[0] = "returned"
    /\ heap.b = 0 /\ heap.a # 0
    /\ ret = <<0, "error: division by zero">>
    /\ Len(out) = 1

\* safeDivide(-3, 2) has returned -1, the quotient truncated toward zero.
C18_WitnessQuotient ==
    /\ prog = "safeDivide" /\ pc[0] = "returned"
    /\ heap.a = 0 - 3 /\ heap.b = 2
    /\ ret = <<0 - 1, "nil">>


\* C21: an order that was Shipped when Cancel (or CancelOrder) was called
\* stays Shipped throughout the call, which returns "cannot cancel shipped
\* order" and, in CancelOrder, does not call repo.Save; an order of any other
\* status is Cancelled when the call returns, Cancel returns nil and
\* CancelOrder has called repo.Save once and returns what it returned.
C21_ShippedNeverCancelled ==
    prog \in OrderProgs =>
        /\ heap.before = "Shipped" => heap.status = "Shipped" /\ ~heap.saved
        /\ (pc[0] = "returned" /\ heap.got) =>
              IF heap.before = "Shipped"
                THEN ret = <<"cannot cancel shipped order">>
                ELSE /\ heap.status = "Cancelled"
                     /\ prog = "Order.Cancel" => ret = <<"nil">>
                     /\ prog = "OrderService.CancelOrder" =>
                           heap.saved /\ ret = <<heap.saveErr>>

\* Cancel has refused a Shipped order for the second time in a row.
C21_Witness ==
    /\ prog = "Order.Cancel" /\ pc[0] = "returned" /\ idx = 1
    /\ heap.before = "Shipped" /\ heap.status = "Shipped"
    /\ ret = <<"cannot cancel shipped order">>

\* CancelOrder has cancelled a Paid order and returned the error of Save.
C21_WitnessSave ==
    /\ prog = "OrderService.CancelOrder" /\ pc[0] = "returned"
    /\ heap.before = "Paid" /\ heap.status = "Cancelled"
    /\ heap.saved /\ ret = <<"repo: failed">>


\* The index of the first object whose insert fails, 0 when none fails.
FirstFailure ==
    IF \E i \in DOMAIN heap.newObjects : ~heap.newObjects[i]
      THEN CHOOSE i \in DOMAIN heap.newObjects :
              /\ ~heap.newObjects[i]
              /\ \A j \in 1..(i - 1) : heap.newObjects[j]
      ELSE 0

\* C22: UnitOfWork.Commit inserts the registered objects in order and stops
\* at the first insert that fails; tx.Commit is called only after every
\* insert succeeded; after a failed insert the transaction is rolled back
\* once, that insert's error is returned and tx.Commit is not called; no
\* transaction is both rolled back and committed.
C22_CommitOnlyAfterAllInserts ==
    prog = "UnitOfWork.Commit" =>
        /\ heap.commits + heap.rollbacks <= 1
        /\ heap.inserts = [i \in 1..Len(heap.inserts) |-> i]
        /\ \A i \in 1..(Len(heap.inserts) - 1) : heap.newObjects[i]
        /\ heap.commits = 1 =>
              /\ FirstFailure = 0
              /\ Len(heap.inserts) = Len(heap.newObjects)
        /\ heap.rollbacks = 1 =>
              /\ FirstFailure # 0
              /\ Len(heap.inserts) = FirstFailure
        /\ pc[0] = "returned" =>
              IF FirstFailure = 0
                THEN heap.commits = 1 /\ ret \in {<<e>> : e \in CommitErrors}
                ELSE heap.rollbacks = 1 /\ ret = InsertError(FirstFailure)

\* The second of three inserts failed: the transaction was rolled back, the
\* third object was not inserted and the second insert's error was returned.
C22_Witness ==
    /\ prog = "UnitOfWork.Commit" /\ pc[0] = "returned"
    /\ heap.newObjects = <<TRUE, FALSE, TRUE>>
    /\ heap.inserts = <<1, 2>> /\ heap.tx = "rolled back"
    /\ heap.commits = 0 /\ ret = InsertError(2)

\* Three inserts succeeded and the transaction was committed.
C22_WitnessCommitted ==
    /\ prog = "UnitOfWork.Commit" /\ pc[0] = "returned"
    /\ heap.newObjects = <<TRUE, TRUE, TRUE>>
    /\ heap.inserts = <<1, 2, 3>> /\ heap.tx = "committed"
    /\ heap.rollbacks = 0 /\ ret = <<"nil">>


\* C23: over any sequence of Get calls the loader is invoked only while no
\* customer is cached; after the first load that returned no error the
\* loader is not invoked again and every later Get returns the customer of
\* that load; a load that returned an error is returned to the caller and
\* caches nothing.
C23_LoadedOnFirstAccessOnly ==
    prog = "LazyCustomer.Get" =>
        /\ pc[0] = "load" => heap.customer = 0
        /\ heap.okLoads <= 1
        /\ heap.okLoads = 0 => heap.customer = 0
        /\ (pc[0] = "returned" /\ ret[2] = "nil") => ret[1] = heap.first
        /\ (pc[0] = "returned" /\ ret[2] # "nil") =>
              heap.loading /\ ret[1] = 0


\* The calls of fn that retry(fn, retries) may make at most.
RetryLimit == IF heap.retries < 0 THEN 0 ELSE heap.retries

\* C24: retry(fn, retries) calls fn at most retries times, every call but
\* the last one made having failed; it returns nil exactly when the last
\* call returned nil, and then makes no further call; it returns "operation
\* failed after retries" exactly when retries calls were made and all
\* failed, which for retries <= 0 means without calling fn.
C24_RetryStopsAtFirstSuccess ==
    prog = "retry" =>
        /\ Len(heap.calls) <= RetryLimit
        /\ \A k \in 1..(Len(heap.calls) - 1) : heap.calls[k] # "nil"
        /\ pc[0] # "returned" => \A k \in DOMAIN heap.calls : heap.calls[k] # "nil"
        /\ pc[0] = "returned" =>
              /\ ret \in {<<"nil">>, <<"operation failed after retries">>}
              /\ ret = <<"nil">> <=>
                    /\ heap.calls # <<>>
                    /\ heap.calls[Len(heap.calls)] = "nil"
              /\ ret # <<"nil">> <=>
                    /\ Len(heap.calls) = RetryLimit
                    /\ \A k \in DOMAIN heap.calls : heap.calls[k] # "nil"

\* retry(fn, 3) has succeeded at the third call after two failures.
C24_Witness ==
    /\ prog = "retry" /\ pc[0] = "returned" /\ heap.retries = 3
    /\ heap.calls = <<"random failure", "random failure", "nil">>
    /\ heap.sleeps = 2 /\ ret = <<"nil">>

\* retry(fn, 2) has given up after two failed calls.
C24_WitnessFailed ==
    /\ prog = "retry" /\ pc[0] = "returned" /\ heap.retries = 2
    /\ heap.calls = <<"random failure", "random failure">>
    /\ ret = <<"operation failed after retries">>

\* retry(fn, -1) has returned the error without calling fn.
C24_WitnessNoCall ==
    /\ prog = "retry" /\ pc[0] = "returned" /\ heap.retries < 0
    /\ heap.calls = <<>> /\ ret = <<"operation failed after retries">>


\* The times before t at which the throttled function called fn.
RunsBefore(t) == {heap.runs[k] : k \in DOMAIN heap.runs} \cap 0..(t - 1)

\* The largest element of a non-empty set of numbers.
Latest(S) == CHOOSE x \in S : \A y \in S : y <= x

\* C25: the function returned by throttle(fn, d) calls fn on a call exactly
\* when it is the first call or more than d has passed since the last call
\* on which it called fn; lastCall is the time of that call, which a
\* suppressed call leaves alone; any two calls of fn are more than d apart;
\* in main (five calls 300 ms apart, d = 1 s) fn runs on the first and the
\* fifth call only.
C25_ThrottleSpacing ==
    prog = "throttle" =>
        /\ \A k \in 1..(Len(heap.runs) - 1) :
              heap.runs[k + 1] - heap.runs[k] > heap.duration
        /\ \A k \in DOMAIN heap.calls :
              (\E j \in DOMAIN heap.runs : heap.runs[j] = heap.calls[k]) <=>
                  \/ k = 1
                  \/ heap.calls[k] - Latest(RunsBefore(heap.calls[k]))
                        > heap.duration
        /\ heap.lastCall = IF heap.runs = <<>> THEN ZeroTime
                                               ELSE heap.runs[Len(heap.runs)]
        /\ Len(out) = Len(heap.runs)
        /\ ( /\ pc[0] = "returned"
             /\ heap.duration = ThrottleAsWritten.duration
             /\ heap.gap = ThrottleAsWritten.gap )
           => heap.calls = <<0, 3, 6, 9, 12>> /\ heap.runs = <<0, 12>>

\* main's loop has ended: fn ran on the first and the fifth call.
C25_Witness ==
    /\ prog = "throttle" /\ pc[0] = "returned"
    /\ heap.duration = 10 /\ heap.gap = 3
    /\ heap.runs = <<0, 12>> /\ Len(heap.calls) = 5 /\ Len(out) = 2

\* With a window of 300 ms and calls 200 ms apart every second call is
\* suppressed.
C25_WitnessEveryOther ==
    /\ prog = "throttle" /\ pc[0] = "returned"
    /\ heap.duration = 3 /\ heap.gap = 2
    /\ heap.runs = <<0, 4, 8>>


\* C26: exampleMutexErrors never gets past its second mu.Lock(): the first
\* Lock leaves the mutex held, the second never returns, mu.Unlock() is
\* never reached and the function never returns.
C26_SecondLockBlocks ==
    prog = "exampleMutexErrors" =>
        /\ pc[0] \in {"loop", "second"}
        /\ idx <= 1
        /\ pc[0] = "second" => mu /\ ~CanLock /\ ~ENABLED EMEStatement

\* The function is at its second Lock with the mutex held by its first.
C26_Witness ==
    /\ prog = "exampleMutexErrors"
    /\ pc[0] = "second" /\ idx = 1 /\ mu


\* C27: in exampleWaitGroupErrors the goroutine started without wg.Add has
\* no effect but that the first wg.Wait returns at once: whenever the
\* function is at that Wait it can return, whatever the goroutine has done,
\* the goroutine's deferred wg.Done completes, and the process does not die.
C27_WaitReturnsAtOnce ==
    prog = "exampleWaitGroupErrors" =>
        /\ pc[0] = "wait" /\ ~crashed => WgWaitReturns
        /\ pc[1] # "fatal"
        /\ ~crashed


\* The goroutines of a select example that are not the one whose message
\* the select took.
NotSelected ==
    {g \in 1..Producers(prog) : out # << <<"message", g>> >>}

\* The goroutine the source leaves behind when run as written.
LeakedAsWritten == IF prog = "exampleTimeout" THEN 1 ELSE 2

\* A step after the function's return leaves every such goroutine that is at
\* its send at its send.
BlockedSenderStays ==
    (prog \in SelectProgs /\ pc[0] = "returned") =>
        \A g \in NotSelected : (pc[g] = "send" => pc'[g] = "send")

\* C28: once a select example has returned, every goroutine whose message
\* was not taken is left: it comes to its send, stays there and never ends.
\* With the durations of the source that goroutine is the sender on ch2 in
\* exampleSelect and exampleMultipleChannelsWithTimeout and the sender on ch
\* in exampleTimeout.
C28_UnselectedProducerLeaks ==
    /\ [](prog \in SelectProgs /\ pc[0] = "returned" =>
            /\ \A g \in NotSelected : pc[g] \in {"sleep", "sleeping", "send"}
            /\ dur = SelectAsWritten(prog) => LeakedAsWritten \in NotSelected)
    /\ [][BlockedSenderStays]_vars
    /\ (prog \in SelectProgs /\ pc[0] = "returned") ~>
            [](\A g \in NotSelected : pc[g] = "send" /\ ~ENABLED SelRecv(g))

\* exampleTimeout as written has returned on its timeout and its goroutine
\* has since come to its send, which nobody will receive.
C28_Witness ==
    /\ prog = "exampleTimeout" /\ dur = SelectAsWritten(prog)
    /\ pc[0] = "returned" /\ out = << <<"timeout">> >>
    /\ pc[1] = "send" /\ now > ret[2]

\* exampleSelect as written has taken the message of ch1; the sender on ch2
\* is at its send.
C28_WitnessSelect ==
    /\ prog = "exampleSelect" /\ dur = SelectAsWritten(prog)
    /\ pc[0] = "returned" /\ out = << <<"message", 1>> >>
    /\ pc[1] = "exited" /\ pc[2] = "send"


\* ProcessBatch has returned to its caller.
PBReturned == pc[0] \in {"range", "returned"}

\* A step that changes whether the channel is closed is the close of
\* ProcessBatch, made once, after wg.Wait, with every goroutine ended.
ClosedOnceAfterSends ==
    (prog = "ProcessBatch" /\ closed' # closed) =>
        /\ ~closed /\ pc[0] = "loop" /\ pc'[0] = "range"
        /\ \A g \in Goroutines : pc[g] = "exited"

\* C29: with nobody receiving while it runs, ProcessBatch returns exactly
\* when the capacity of resultChan is at least len(data).  With such a
\* capacity every send completes, wg.Wait returns and the channel is closed
\* once, after the last send, holding every value.  With a smaller capacity
\* the channel is never closed, ProcessBatch never returns and in the end
\* some goroutine stays blocked in its send.
C29_ReturnsIffCapacitySuffices ==
    /\ [](prog = "ProcessBatch" =>
            /\ (closed \/ PBReturned) =>
                  /\ capacity >= Len(slice)
                  /\ Len(buf) + Len(results) = Len(slice)
                  /\ wg = 0
            /\ PBReturned => closed)
    /\ [][ClosedOnceAfterSends]_vars
    /\ (prog = "ProcessBatch" /\ capacity >= Len(slice)) ~> PBReturned
    /\ (prog = "ProcessBatch" /\ capacity < Len(slice)) ~>
          [](/\ pc[0] = "loop" /\ ~closed /\ wg > 0
             /\ \E g \in Goroutines : pc[g] = "send" /\ ~CanSend)

\* Three values have been sent into a channel of capacity 3 and ProcessBatch
\* has closed it and returned.
C29_Witness ==
    /\ prog = "ProcessBatch" /\ Len(slice) = 3 /\ capacity = 3
    /\ pc[0] = "range" /\ closed /\ Len(buf) = 3 /\ results = <<>>

\* On a channel without buffer the three goroutines are at their sends and
\* ProcessBatch waits.
C29_WitnessBlocked ==
    /\ prog = "ProcessBatch" /\ Len(slice) = 3 /\ capacity = 0
    /\ pc[0] = "loop" /\ idx = 3 /\ wg = 3 /\ ~closed
    /\ \A g \in Goroutines : pc[g] = "send"

\* With capacity 2 for three values two sends have completed and the third
\* goroutine is blocked.
C29_WitnessPartly ==
    /\ prog = "ProcessBatch" /\ Len(slice) = 3 /\ capacity = 2
    /\ pc[0] = "loop" /\ wg = 1 /\ Len(buf) = 2 /\ ~closed


\* In one step a goroutine of exampleSyncBestPractices moves one statement
\* on; taking a slot adds one value to the channel and the deferred receive
\* takes one away, so that a goroutine that took a slot gives it back once.
SlotTakenAndReleasedOnce ==
    prog = "exampleSyncBestPractices" =>
        \A g \in 1..NumTasks :
            pc'[g] # pc[g] =>
                \/ pc[g] = "unborn" /\ pc'[g] = "acquire" /\ buf' = buf
                \/ /\ pc[g] = "acquire" /\ pc'[g] = "work"
                   /\ Len(buf') = Len(buf) + 1
                \/ /\ pc[g] = "work" /\ pc'[g] = "deferred"
                   /\ Len(buf') = Len(buf) - 1
                \/ pc[g] = "deferred" /\ pc'[g] = "exited" /\ buf' = buf

\* C30: under fair scheduling exampleSyncBestPractices processes all its
\* tasks: wg.Wait returns, and when it has returned every goroutine has
\* ended, which it does only by way of taking a slot (ch <- i) and giving it
\* back once (<-ch), and the channel is empty.
C30_AllTasksProcessed ==
    /\ [][SlotTakenAndReleasedOnce]_vars
    /\ [](prog = "exampleSyncBestPractices" =>
            /\ Len(buf) = Cardinality(InSlot)
            /\ pc[0] = "returned" =>
                  /\ buf = <<>> /\ wg = 0
                  /\ \A g \in 1..NumTasks : pc[g] = "exited"
                  /\ out = << <<"All tasks processed">> >>)
    /\ <>(prog = "exampleSyncBestPractices" /\ pc[0] = "returned")

\* The function has returned after a sixth goroutine had waited for one of
\* the five slots.
C30_Witness ==
    /\ prog = "exampleSyncBestPractices"
    /\ pc[0] = "returned" /\ buf = <<>>
    /\ \A g \in 1..NumTasks : pc[g] = "exited"
    /\ NumTasks > SlotChanCap

=============================================================================
